---- MODULE Spec2Model ----
(***************************************************************************)
(* Flow-based GEX pipeline of hedgeiq-backend: the state store             *)
(* (redis_state.py), the stream processor (stream_processor.py) and the    *)
(* recalculation scheduler it embeds.                                      *)
(*                                                                         *)
(* Numbers.  Python floats that the pipeline stores (positions, amounts,   *)
(* flip levels, spot) are modelled as integers counting tenths, so 15      *)
(* stands for 1.5.  str() and float() are modelled on character sequences. *)
(* Optional values are sequences: None is <<>>, a present value x is <<x>>.*)
(***************************************************************************)
EXTENDS Integers, Sequences, FiniteSets, TLC

VARIABLES
    state,                   \* self.state : RedisStateManager (backend flag + both backends)
    pc,                      \* position of run_forever()/run()
    running,                 \* self.running
    ws,                      \* self.ws
    exc,                     \* exception propagating out of run()
    credentials,             \* client_id and client_secret are both set
    trades_since_last_calc,  \* self.trades_since_last_calc
    total_trades,            \* self.total_trades
    last_calc_time,          \* self.last_calc_time (Optional)
    options_data,            \* self.options_data (Optional snapshot)
    last_options_refresh,    \* local of run()
    now,                     \* wall clock, whole seconds
    hist,                    \* history (ghost) record of the sequential specifications
    prod,                    \* concurrent producers of the shared store
    reader,                  \* concurrent reader of the shared store
    decision,                \* last value returned by should_recalculate()
    client,                  \* which program runs: "processor" (stream_processor.py)
                             \* or "listener" (deribit_websocket.py)
    inventory,               \* DeribitTradeListener.inventory : DealerInventory
    twin                     \* a second RedisStateManager given the same calls (Optional)

storeVars == <<state>>
procVars == <<pc, running, ws, exc, credentials, trades_since_last_calc, total_trades,
              last_calc_time, options_data, last_options_refresh>>
vars == <<state, pc, running, ws, exc, credentials, trades_since_last_calc, total_trades,
          last_calc_time, options_data, last_options_refresh, now, hist,
          prod, reader, decision, client, twin, inventory>>

----------------------------------------------------------------------------
(* Python values *)

None == <<>>
Some(x) == <<x>>

\* a number that is not there: a JSON null amount, a mark_iv the venue did not
\* give (None, NaN in the frame); a number that is there is never negative
Missing == -1

Abs(n) == IF n < 0 THEN -n ELSE n

DigitChars == <<"0", "1", "2", "3", "4", "5", "6", "7", "8", "9">>

DigitVal(c) == CHOOSE i \in 0..9 : DigitChars[i + 1] = c

RECURSIVE NatStr(_)
NatStr(n) == IF n < 10 THEN <<DigitChars[n + 1]>>
             ELSE NatStr(n \div 10) \o <<DigitChars[(n % 10) + 1]>>

RECURSIVE NatVal(_)
NatVal(s) == IF s = <<>> THEN 0
             ELSE 10 * NatVal(SubSeq(s, 1, Len(s) - 1)) + DigitVal(s[Len(s)])

\* str(x) of a float x given in tenths: sign, integer part, ".", one decimal
PyStr(v) == (IF v < 0 THEN <<"-">> ELSE <<>>)
            \o NatStr(Abs(v) \div 10) \o <<".">> \o <<DigitChars[(Abs(v) % 10) + 1]>>

\* float(s) of a string produced by str(): value in tenths
PyFloat(s) ==
    LET neg  == s[1] = "-"
        body == IF neg THEN SubSeq(s, 2, Len(s)) ELSE s
        ip   == SubSeq(body, 1, Len(body) - 2)
        mag  == 10 * NatVal(ip) + DigitVal(body[Len(body)])
    IN  IF neg THEN -mag ELSE mag

\* "if val" for Optional[str]: None and "" are falsy
Truthy(s) == s # None

\* "if x" for Optional[float]: None and 0.0 are falsy
TruthyNum(o) == o # None /\ o[1] # 0

\* json.dumps / json.loads of a result dict
JsonDumps(r) == <<"json", r>>
JsonLoads(s) == s[2]

\* dict[k] = v, dict.get(k)
Put(d, k, v) == [x \in (DOMAIN d) \cup {k} |-> IF x = k THEN v ELSE d[x]]
Lookup(d, k) == IF k \in DOMAIN d THEN d[k] ELSE None
EmptyDict == [x \in {} |-> None]

----------------------------------------------------------------------------
(* redis_state.py : RedisStateManager *)

\* f"{strike}:{option_type}"
Field(strike, option_type) == <<strike, option_type>>

\* f"{key}:{field}"
MemKey(key, field) == <<key>> \o field

\* __init__: use_memory=True, no URL, or ConnectionError => in-memory dict
NewState(mem) == [use_memory |-> mem,
                  memory     |-> EmptyDict,
                  rhash      |-> EmptyDict,
                  rstr       |-> EmptyDict]

_get(st, key) == IF st.use_memory THEN Lookup(st.memory, <<key>>)
                 ELSE Lookup(st.rstr, key)

_set(st, key, value) ==
    IF st.use_memory THEN [st EXCEPT !.memory = Put(st.memory, <<key>>, value)]
    ELSE [st EXCEPT !.rstr = Put(st.rstr, key, value)]

_hget(st, key, field) ==
    IF st.use_memory THEN Lookup(st.memory, MemKey(key, field))
    ELSE Lookup(st.rhash, field)

_hset(st, key, field, value) ==
    IF st.use_memory
    THEN [st EXCEPT !.memory = Put(st.memory, MemKey(key, field), value)]
    ELSE [st EXCEPT !.rhash = Put(st.rhash, field, value)]

\* dict of field -> value; in memory the keys that start with f"{key}:"
_hgetall(st, key) ==
    IF st.use_memory
    THEN LET ks == {k \in DOMAIN st.memory : Len(k) > 1 /\ k[1] = key}
         IN  [f \in {SubSeq(k, 2, Len(k)) : k \in ks} |-> st.memory[<<key>> \o f]]
    ELSE st.rhash

\* mutant: the new value overwrites the stored position instead of adding to it
NewPosition_overwrite(st, strike, option_type, delta) == delta

\* new_val computed from the string that _hget returned
NewValue(current, delta) ==
    LET current_val == IF Truthy(current) THEN PyFloat(current) ELSE 0
    IN  current_val + delta

\* value returned by update_dealer_position
NewPosition(st, strike, option_type, delta) ==
    NewValue(_hget(st, "dealer_inventory", Field(strike, option_type)), delta)

update_dealer_position(st, strike, option_type, delta) ==
    _hset(st, "dealer_inventory", Field(strike, option_type),
          PyStr(NewPosition(st, strike, option_type, delta)))

get_dealer_position(st, strike, option_type) ==
    LET val == _hget(st, "dealer_inventory", Field(strike, option_type))
    IN  IF Truthy(val) THEN PyFloat(val) ELSE 0

\* nested dict strike -> {"call": x, "put": y}; a type never written reads 0.0
get_full_inventory(st) ==
    LET raw     == _hgetall(st, "dealer_inventory")
        fields  == {f \in DOMAIN raw : Len(f) = 2}
        strikes == {f[1] : f \in fields}
        At(s, t) == IF <<s, t>> \in fields THEN PyFloat(raw[<<s, t>>]) ELSE 0
    IN  [s \in strikes |-> [call |-> At(s, "call"), put |-> At(s, "put")]]

\* variant: the in-memory reset drops every key, not only the inventory ones
reset_inventory_all(st) ==
    IF st.use_memory THEN [st EXCEPT !.memory = EmptyDict]
    ELSE [st EXCEPT !.rhash = EmptyDict]

reset_inventory(st) ==
    IF st.use_memory
    THEN LET keep == {k \in DOMAIN st.memory : k[1] # "dealer_inventory"}
         IN  [st EXCEPT !.memory = [k \in keep |-> st.memory[k]]]
    ELSE [st EXCEPT !.rhash = EmptyDict]

\* the three writes of store_gex_result, in program order
StoreCurrent(st, r) == _set(st, "gex:current", JsonDumps(r))
StoreLastUpdated(st, t) == _set(st, "gex:last_updated", Some(t))
StoreFlip(st, r) ==
    IF TruthyNum(r.flip_level) THEN _set(st, "gex:flip", PyStr(r.flip_level[1]))
    ELSE st

store_gex_result(st, r, t) == StoreFlip(StoreLastUpdated(StoreCurrent(st, r), t), r)

get_gex_result(st) ==
    LET data == _get(st, "gex:current")
    IN  IF Truthy(data) THEN Some(JsonLoads(data)) ELSE None

get_flip_level(st) ==
    LET val == _get(st, "gex:flip")
    IN  IF Truthy(val) THEN Some(PyFloat(val)) ELSE None

set_spot_price(st, price) == _set(st, "spot_price", PyStr(price))

get_spot_price(st) ==
    LET val == _get(st, "spot_price")
    IN  IF Truthy(val) THEN Some(PyFloat(val)) ELSE None

----------------------------------------------------------------------------
(* deribit_websocket.py : parse_instrument_name, DealerInventory *)

Digits == {"0", "1", "2", "3", "4", "5", "6", "7", "8", "9"}
UpperLetters == {"A", "B", "C", "D", "E", "F", "G", "H", "I", "J", "K", "L", "M",
                 "N", "O", "P", "Q", "R", "S", "T", "U", "V", "W", "X", "Y", "Z"}

\* the parts of s between occurrences of sep
RECURSIVE Split(_, _)
Split(s, sep) ==
    IF \A i \in 1..Len(s) : s[i] # sep THEN <<s>>
    ELSE LET i == CHOOSE j \in 1..Len(s) : s[j] = sep /\ \A k \in 1..(j - 1) : s[k] # sep
         IN  <<SubSeq(s, 1, i - 1)>> \o Split(SubSeq(s, i + 1, Len(s)), sep)

\* \d+
AllDigits(part) == Len(part) >= 1 /\ \A i \in 1..Len(part) : part[i] \in Digits

\* \d{1,2}[A-Z]{3}\d{2}
IsExpiry(part) ==
    \E n \in {1, 2} :
        /\ Len(part) = n + 5
        /\ \A i \in 1..n : part[i] \in Digits
        /\ \A i \in (n + 1)..(n + 3) : part[i] \in UpperLetters
        /\ \A i \in (n + 4)..(n + 5) : part[i] \in Digits

\* variant: the underlying is not checked
parse_instrument_name_any_underlying(instrument_name) ==
    LET parts == Split(instrument_name, "-")
    IN  IF /\ Len(parts) = 4
           /\ IsExpiry(parts[2])
           /\ AllDigits(parts[3])
           /\ parts[4] \in {<<"C">>, <<"P">>}
        THEN Some([underlying  |-> parts[1],
                   expiry      |-> parts[2],
                   strike      |-> NatVal(parts[3]),
                   option_type |-> IF parts[4] = <<"C">> THEN "call" ELSE "put"])
        ELSE None

\* re.match(r'^(BTC)-(\d{1,2}[A-Z]{3}\d{2})-(\d+)-([CP])$', name); no group can
\* hold a "-", so a match has exactly four "-"-separated parts; "$" also
\* matches just before one trailing newline
parse_instrument_name(instrument_name) ==
    LET n     == Len(instrument_name)
        text  == IF n > 0 /\ instrument_name[n] = "\n"
                 THEN SubSeq(instrument_name, 1, n - 1) ELSE instrument_name
        parts == Split(text, "-")
    IN  IF /\ Len(parts) = 4
           /\ parts[1] = <<"B", "T", "C">>
           /\ IsExpiry(parts[2])
           /\ AllDigits(parts[3])
           /\ parts[4] \in {<<"C">>, <<"P">>}
        THEN Some([underlying  |-> parts[1],
                   expiry      |-> parts[2],
                   strike      |-> NatVal(parts[3]),
                   option_type |-> IF parts[4] = <<"C">> THEN "call" ELSE "put"])
        ELSE None

\* trade.get(k, default)
DictGet(d, k, default) == IF k \in DOMAIN d THEN d[k] ELSE default

\* variant: a taker side that is neither buy nor sell moves nothing
TradeDelta_known_sides_only(direction, amount) ==
    IF direction = "buy" THEN -amount ELSE IF direction = "sell" THEN amount ELSE 0

\* mutant: the taker side is read the wrong way round
TradeDelta_flipped(direction, amount) == IF direction = "buy" THEN amount ELSE -amount

\* delta of a trade: taker bought => dealer sold
TradeDelta(direction, amount) == IF direction = "buy" THEN -amount ELSE amount

NewInventory == [positions |-> EmptyDict, trade_count |-> 0, last_updated |-> None]

\* self.positions[strike]: the defaultdict creates {"call": 0.0, "put": 0.0}
Vivify(positions, strike) ==
    IF strike \in DOMAIN positions THEN positions
    ELSE Put(positions, strike, [call |-> 0, put |-> 0])

update_from_trade(inv, strike, option_type, amount, taker_side, t) ==
    LET pos == Vivify(inv.positions, strike)
    IN  [positions    |-> [pos EXCEPT ![strike][option_type] = @ + TradeDelta(taker_side, amount)],
         trade_count  |-> inv.trade_count + 1,
         last_updated |-> Some(t)]

\* get_position reads through the defaultdict and so creates the strike entry
get_position(inv, strike, option_type) == Vivify(inv.positions, strike)[strike][option_type]

\* DeribitTradeListener.process_trade
listener_process_trade(inv, trade, t) ==
    LET parsed == parse_instrument_name(DictGet(trade, "instrument_name", <<>>))
    IN  IF parsed = None THEN inv
        ELSE LET strike == parsed[1].strike
                 upd    == update_from_trade(inv, strike, parsed[1].option_type,
                                          DictGet(trade, "amount", 0),
                                          DictGet(trade, "direction", ""), t)
                 current_pos == get_position(upd, strike, parsed[1].option_type)
             IN  upd

----------------------------------------------------------------------------
(* stream_processor.py : HedgeIQStreamProcessor.process_trade *)

\* self, the fields of the processor that its handlers read and write
Self == [state                  |-> state,
         total_trades           |-> total_trades,
         trades_since_last_calc |-> trades_since_last_calc,
         last_calc_time         |-> last_calc_time,
         options_data           |-> options_data,
         stdout                 |-> <<>>,
         error                  |-> FALSE]

\* amount = trade.get("amount", 0) is None for a JSON null: -amount raises
\* TypeError, and so does current_val + delta in update_dealer_position
AmountRaises(trade) == DictGet(trade, "amount", 0) = Missing

\* print(f"{side} {amount:.1f} {type_str}@{strike} -> Dealer: {new_pos:+.1f}"),
\* written for amount >= 1.0; new_pos is what update_dealer_position returned
TradeLine(st, strike, option_type, amount) ==
    IF amount >= 10
    THEN <<[strike |-> strike, option_type |-> option_type,
            new_pos |-> get_dealer_position(st, strike, option_type)]>>
    ELSE <<>>

\* variant: a parsed trade is counted twice
process_trade_counts_twice(self, trade) ==
    LET parsed == parse_instrument_name(DictGet(trade, "instrument_name", <<>>))
    IN  IF parsed = None THEN self
        ELSE IF AmountRaises(trade) THEN [self EXCEPT !.error = TRUE]
        ELSE LET delta == TradeDelta(DictGet(trade, "direction", ""),
                                     DictGet(trade, "amount", 0))
             IN  [self EXCEPT
                    !.state = update_dealer_position(self.state, parsed[1].strike,
                                                     parsed[1].option_type, delta),
                    !.total_trades = @ + 2,
                    !.trades_since_last_calc = @ + 1]

process_trade(self, trade) ==
    LET parsed == parse_instrument_name(DictGet(trade, "instrument_name", <<>>))
    IN  IF parsed = None THEN self
        ELSE IF AmountRaises(trade) THEN [self EXCEPT !.error = TRUE]
        ELSE LET delta == TradeDelta(DictGet(trade, "direction", ""),
                                     DictGet(trade, "amount", 0))
             IN  [self EXCEPT
                    !.state = update_dealer_position(self.state, parsed[1].strike,
                                                     parsed[1].option_type, delta),
                    !.total_trades = @ + 1,
                    !.trades_since_last_calc = @ + 1,
                    !.stdout = @ \o TradeLine(
                        update_dealer_position(self.state, parsed[1].strike,
                                               parsed[1].option_type, delta),
                        parsed[1].strike, parsed[1].option_type,
                        DictGet(trade, "amount", 0))]

\* the loop body applied to each trade of a list, first to last
RECURSIVE FoldTrades(_, _)
FoldTrades(self, trades) ==
    IF trades = <<>> \/ self.error THEN self
    ELSE FoldTrades(process_trade(self, Head(trades)), Tail(trades))

\* variant: the trades of a notification are handled last to first
ProcessBatch_reversed(self, trades) ==
    FoldTrades(self, [i \in DOMAIN trades |-> trades[Len(trades) + 1 - i]])

\* for trade in trades: await self.process_trade(trade)
ProcessBatch(self, trades) == FoldTrades(self, trades)

RECURSIVE ListenerBatch(_, _, _)
ListenerBatch(inv, trades, t) ==
    IF trades = <<>> THEN inv
    ELSE ListenerBatch(listener_process_trade(inv, Head(trades), t), Tail(trades), t)

----------------------------------------------------------------------------
(* stream_processor.py : recalculation scheduler *)

calc_every_n_trades == 10
calc_interval_seconds == 5
SecondsPerDay == 86400

\* (datetime.now() - self.last_calc_time).seconds >= self.calc_interval_seconds;
\* timedelta.seconds is the seconds field of the normalised (days, seconds,
\* microseconds) triple, 0 <= seconds < 86400, not the total duration
IntervalElapsed(last, t) == ((t - last) % SecondsPerDay) >= calc_interval_seconds

should_recalculate(last, trades, t) ==
    IF last = None THEN TRUE
    ELSE IF trades >= calc_every_n_trades THEN TRUE
    ELSE IF IntervalElapsed(last[1], t) THEN TRUE
    ELSE FALSE

----------------------------------------------------------------------------
(* flow_based_gex.py : FlowBasedGEXCalculator                                 *)
(*                                                                            *)
(* Units: a position is in tenths of a contract, an exposure in dollars, a   *)
(* spot price or flip level in tenths of a dollar, mark_iv in hundredths     *)
(* (3400 is 34.0, read as a percentage; 34 is 0.34, read as a fraction),     *)
(* sigma in 1/10000.  Times are whole seconds.                                *)

\* Black-Scholes kernel, tabulated: for spot S (dollars), strike K, sigma and
\* time to expiry (nearest hour), raw = gamma * S^2 * 0.01 per tenth of a
\* contract and weighted = raw / sqrt(days to expiry), rounded to dollars; a
\* positive float is never rounded to 0, so an entry is 0 only where the float
\* is 0.0: norm.pdf(d1) underflows for a strike far from spot close to expiry
KernelTable ==
    <<87800, 90000, 3400, 2>> :> [raw |-> 1, weighted |-> 1] @@
    <<87800, 90000, 3400, 24>> :> [raw |-> 757, weighted |-> 757] @@
    <<87800, 90000, 3400, 168>> :> [raw |-> 656, weighted |-> 248] @@
    <<87800, 90000, 4000, 2>> :> [raw |-> 1, weighted |-> 5] @@
    <<87800, 90000, 4000, 24>> :> [raw |-> 842, weighted |-> 842] @@
    <<87800, 90000, 4000, 168>> :> [raw |-> 579, weighted |-> 219] @@
    <<87800, 90000, 5000, 2>> :> [raw |-> 22, weighted |-> 76] @@
    <<87800, 90000, 5000, 24>> :> [raw |-> 866, weighted |-> 866] @@
    <<87800, 90000, 5000, 168>> :> [raw |-> 480, weighted |-> 182] @@
    <<87800, 91000, 3400, 2>> :> [raw |-> 1, weighted |-> 1] @@
    <<87800, 91000, 3400, 24>> :> [raw |-> 265, weighted |-> 265] @@
    <<87800, 91000, 3400, 168>> :> [raw |-> 567, weighted |-> 214] @@
    <<87800, 91000, 4000, 2>> :> [raw |-> 1, weighted |-> 1] @@
    <<87800, 91000, 4000, 24>> :> [raw |-> 395, weighted |-> 395] @@
    <<87800, 91000, 4000, 168>> :> [raw |-> 522, weighted |-> 197] @@
    <<87800, 91000, 5000, 2>> :> [raw |-> 1, weighted |-> 1] @@
    <<87800, 91000, 5000, 24>> :> [raw |-> 534, weighted |-> 534] @@
    <<87800, 91000, 5000, 168>> :> [raw |-> 450, weighted |-> 170] @@
    <<90000, 90000, 3400, 2>> :> [raw |-> 6991, weighted |-> 24219] @@
    <<90000, 90000, 3400, 24>> :> [raw |-> 2018, weighted |-> 2018] @@
    <<90000, 90000, 3400, 168>> :> [raw |-> 763, weighted |-> 288] @@
    <<90000, 90000, 4000, 2>> :> [raw |-> 5943, weighted |-> 20586] @@
    <<90000, 90000, 4000, 24>> :> [raw |-> 1715, weighted |-> 1715] @@
    <<90000, 90000, 4000, 168>> :> [raw |-> 648, weighted |-> 245] @@
    <<90000, 90000, 5000, 2>> :> [raw |-> 4754, weighted |-> 16469] @@
    <<90000, 90000, 5000, 24>> :> [raw |-> 1372, weighted |-> 1372] @@
    <<90000, 90000, 5000, 168>> :> [raw |-> 518, weighted |-> 196] @@
    <<90000, 91000, 3400, 2>> :> [raw |-> 695, weighted |-> 2406] @@
    <<90000, 91000, 3400, 24>> :> [raw |-> 1673, weighted |-> 1673] @@
    <<90000, 91000, 3400, 168>> :> [raw |-> 746, weighted |-> 282] @@
    <<90000, 91000, 4000, 2>> :> [raw |-> 1122, weighted |-> 3887] @@
    <<90000, 91000, 4000, 24>> :> [raw |-> 1501, weighted |-> 1501] @@
    <<90000, 91000, 4000, 168>> :> [raw |-> 639, weighted |-> 241] @@
    <<90000, 91000, 5000, 2>> :> [raw |-> 1639, weighted |-> 5678] @@
    <<90000, 91000, 5000, 24>> :> [raw |-> 1262, weighted |-> 1262] @@
    <<90000, 91000, 5000, 168>> :> [raw |-> 515, weighted |-> 195] @@
    <<87800, 150000, 3400, 3>> :> [raw |-> 0, weighted |-> 0] @@
    <<90000, 150000, 3400, 3>> :> [raw |-> 0, weighted |-> 0]

NearestHour(dte_seconds) == (dte_seconds + 1800) \div 3600

\* black_scholes_gamma with r = 0, times S^2 * 0.01: 0 when T <= 0 or sigma <= 0
GammaDollars(S, K, dte_seconds, sigma) ==
    IF dte_seconds <= 0 \/ sigma <= 0 THEN 0
    ELSE KernelTable[<<S \div 10, K, sigma, NearestHour(dte_seconds)>>].raw

\* the same contribution times time_weight = 1 / sqrt(days_to_expiry)
WeightedDollars(S, K, dte_seconds, sigma) ==
    IF dte_seconds <= 0 \/ sigma <= 0 THEN 0
    ELSE KernelTable[<<S \div 10, K, sigma, NearestHour(dte_seconds)>>].weighted

\* sigma = row['mark_iv']; if sigma > 5: sigma = sigma / 100.0
NormalisedSigma(mark_iv) == IF mark_iv > 500 THEN mark_iv ELSE mark_iv * 100

\* options_filtered['dte_days'] > 0.083, with dte_days = dte_seconds / 86400
PassesExpiryFilter(row, t) == (row.expiration - t) * 1000 > 83 * 86400

RECURSIVE SumOver(_, _)
SumOver(S, f) == IF S = {} THEN 0
                 ELSE LET x == CHOOSE y \in S : TRUE IN f[x] + SumOver(S \ {x}, f)

RECURSIVE SortedSeq(_)
SortedSeq(S) == IF S = {} THEN <<>>
                ELSE LET m == CHOOSE x \in S : \A y \in S : x <= y
                     IN  <<m>> \o SortedSeq(S \ {m})

SentinelResult(btc_price, t) ==
    [gex_by_strike  |-> <<>>,
     net_gex        |-> 0,
     flip_level     |-> None,
     max_support    |-> <<0, 0>>,
     max_resistance |-> <<0, 0>>,
     btc_price      |-> btc_price,
     timestamp      |-> t]

\* <<quotient, remainder>> of a * d by n, taken digit by digit of d so that no
\* intermediate product leaves the integer range
RECURSIVE MulDiv(_, _, _)
MulDiv(a, d, n) ==
    IF d = 0 THEN <<0, 0>>
    ELSE LET hi  == MulDiv(a, d \div 10, n)
             low == 10 * hi[2] + a * (d % 10)
         IN  <<10 * hi[1] + low \div n, low % n>>

\* the loop of _find_flip_level: at the first adjacent pair of opposite signs
\* strike + |gex| / (|gex| + |next gex|) * (next strike - strike), in tenths
RECURSIVE FirstFlip(_, _)
FirstFlip(relevant, i) ==
    IF i >= Len(relevant) THEN None
    ELSE LET cur == relevant[i]
             nxt == relevant[i + 1]
         IN  IF (cur.gex > 0 /\ nxt.gex < 0) \/ (cur.gex < 0 /\ nxt.gex > 0)
             THEN Some(cur.strike * 10
                       + MulDiv(Abs(cur.gex), (nxt.strike - cur.strike) * 10,
                                Abs(cur.gex) + Abs(nxt.gex))[1])
             ELSE FirstFlip(relevant, i + 1)

\* variant: every strike is considered, whatever its distance from spot
_find_flip_level_any_range(gex_df, btc_price) ==
    IF Len(gex_df) < 2 THEN None ELSE FirstFlip(gex_df, 1)

\* _find_flip_level: the rows within 15% of spot, in ascending strike order
_find_flip_level(gex_df, btc_price) ==
    LET relevant == SelectSeq(gex_df, LAMBDA r : /\ r.strike * 1000 >= btc_price * 85
                                                 /\ r.strike * 1000 <= btc_price * 115)
    IN  IF Len(relevant) < 2 THEN None ELSE FirstFlip(relevant, 1)

\* variant: the whole nearest row is kept, missing values included
FirstInGroup_whole_row(rows) ==
    LET near == CHOOSE r \in rows : \A q \in rows : r.expiration <= q.expiration
    IN  near

\* groupby(['strike', 'option_type']).first() over rows sorted by dte: each
\* column is the first value of the group that is not missing, so a missing
\* mark_iv of the nearest row is filled from the next expiry that has one
FirstInGroup(rows) ==
    LET near  == CHOOSE r \in rows : \A q \in rows : r.expiration <= q.expiration
        given == {r \in rows : r.mark_iv # Missing}
    IN  IF given = {} THEN near
        ELSE [near EXCEPT !.mark_iv =
                 (CHOOSE r \in given : \A q \in given : r.expiration <= q.expiration).mark_iv]

\* rows with dte_days > 0.083, sorted by dte, then
\* groupby(['strike', 'option_type']).first(): one row per group
NearestExpiries(options, t) ==
    LET kept == {options[i] : i \in {k \in 1..Len(options) : PassesExpiryFilter(options[k], t)}}
        Group(r) == {q \in kept : q.strike = r.strike /\ q.option_type = r.option_type}
    IN  {FirstInGroup(Group(r)) : r \in kept}

\* dealer_inventory.get(strike, {}).get(option_type, 0)
PositionAt(dealer_inventory, strike, option_type) ==
    IF strike \in DOMAIN dealer_inventory /\ option_type \in DOMAIN dealer_inventory[strike]
    THEN dealer_inventory[strike][option_type] ELSE 0

\* one entry of gex_data
GexPoint(row, dealer_position, btc_price, t) ==
    [strike          |-> row.strike,
     option_type     |-> row.option_type,
     dealer_position |-> dealer_position,
     dte_seconds     |-> row.expiration - t,
     mark_iv         |-> row.mark_iv,
     gex             |-> GammaDollars(btc_price, row.strike, row.expiration - t,
                                      NormalisedSigma(row.mark_iv)) * dealer_position,
     gex_weighted    |-> WeightedDollars(btc_price, row.strike, row.expiration - t,
                                         NormalisedSigma(row.mark_iv)) * dealer_position]

\* variant: a row with sigma <= 0 is not skipped
GexPoints_keeps_zero_vol(dealer_inventory, rows, btc_price, t) ==
    {GexPoint(row, PositionAt(dealer_inventory, row.strike, row.option_type), btc_price, t) :
        row \in {r \in rows : PositionAt(dealer_inventory, r.strike, r.option_type) # 0}}

\* the loop over options_filtered: rows without a position or with sigma <= 0
\* are skipped
GexPoints(dealer_inventory, rows, btc_price, t) ==
    {GexPoint(row, PositionAt(dealer_inventory, row.strike, row.option_type), btc_price, t) :
        row \in {r \in rows : /\ PositionAt(dealer_inventory, r.strike, r.option_type) # 0
                              /\ NormalisedSigma(r.mark_iv) > 0}}

\* variant: only the call contributions are aggregated
GroupByStrike_calls_only(points) ==
    LET order == SortedSeq({p.strike : p \in points})
        At(K) == {p \in points : p.strike = K /\ p.option_type = "call"}
    IN  [i \in 1..Len(order) |->
            [strike          |-> order[i],
             gex             |-> SumOver(At(order[i]), [p \in points |-> p.gex_weighted]),
             gex_raw         |-> SumOver(At(order[i]), [p \in points |-> p.gex]),
             dealer_position |-> SumOver(At(order[i]), [p \in points |-> p.dealer_position])]]

\* gex_df.groupby('strike').agg(sum), renamed and sorted by strike
GroupByStrike(points) ==
    LET order == SortedSeq({p.strike : p \in points})
        At(K) == {p \in points : p.strike = K}
    IN  [i \in 1..Len(order) |->
            [strike          |-> order[i],
             gex             |-> SumOver(At(order[i]), [p \in points |-> p.gex_weighted]),
             gex_raw         |-> SumOver(At(order[i]), [p \in points |-> p.gex]),
             dealer_position |-> SumOver(At(order[i]), [p \in points |-> p.dealer_position])]]

\* idxmax / idxmin: the first row holding the extreme value
IdxMax(by_strike) ==
    CHOOSE i \in 1..Len(by_strike) :
        /\ \A j \in 1..Len(by_strike) : by_strike[j].gex <= by_strike[i].gex
        /\ \A j \in 1..(i - 1) : by_strike[j].gex < by_strike[i].gex

IdxMin(by_strike) ==
    CHOOSE i \in 1..Len(by_strike) :
        /\ \A j \in 1..Len(by_strike) : by_strike[j].gex >= by_strike[i].gex
        /\ \A j \in 1..(i - 1) : by_strike[j].gex > by_strike[i].gex

\* variant: the extremes are reported whatever their sign
GEXResult_unguarded(by_strike, btc_price, t) ==
    [gex_by_strike  |-> by_strike,
     net_gex        |-> SumOver(1..Len(by_strike), [i \in 1..Len(by_strike) |-> by_strike[i].gex]),
     flip_level     |-> _find_flip_level(by_strike, btc_price),
     max_support    |-> <<by_strike[IdxMax(by_strike)].strike, by_strike[IdxMax(by_strike)].gex>>,
     max_resistance |-> <<by_strike[IdxMin(by_strike)].strike, by_strike[IdxMin(by_strike)].gex>>,
     btc_price      |-> btc_price,
     timestamp      |-> t]

GEXResult(by_strike, btc_price, t) ==
    [gex_by_strike  |-> by_strike,
     net_gex        |-> SumOver(1..Len(by_strike), [i \in 1..Len(by_strike) |-> by_strike[i].gex]),
     flip_level     |-> _find_flip_level(by_strike, btc_price),
     max_support    |-> IF \E i \in 1..Len(by_strike) : by_strike[i].gex > 0
                        THEN <<by_strike[IdxMax(by_strike)].strike, by_strike[IdxMax(by_strike)].gex>>
                        ELSE <<0, 0>>,
     max_resistance |-> IF \E i \in 1..Len(by_strike) : by_strike[i].gex < 0
                        THEN <<by_strike[IdxMin(by_strike)].strike, by_strike[IdxMin(by_strike)].gex>>
                        ELSE <<0, 0>>,
     btc_price      |-> btc_price,
     timestamp      |-> t]

\* the sentinel result is returned when no row passes the expiry filter and
\* when no row produces a data point
ResultOf(points, btc_price, t) ==
    IF points = {} THEN SentinelResult(btc_price, t)
    ELSE GEXResult(GroupByStrike(points), btc_price, t)

calculate_gex(dealer_inventory, options, btc_price, t) ==
    ResultOf(GexPoints(dealer_inventory, NearestExpiries(options, t), btc_price, t),
             btc_price, t)

----------------------------------------------------------------------------
(* stream_processor.py : HedgeIQStreamProcessor.recalculate_gex *)

\* spot used when the store has none (or 0.0): 90000
DefaultSpot == 900000

\* gex_data as handed to store_gex_result
GexData(result) ==
    [net_gex        |-> result.net_gex,
     flip_level     |-> result.flip_level,
     max_support    |-> result.max_support,
     max_resistance |-> result.max_resistance,
     btc_price      |-> result.btc_price,
     timestamp      |-> result.timestamp,
     gex_by_strike  |-> result.gex_by_strike]

\* variant: the inventory is not looked at before the calculation
ReturnsEarly_ignores_inventory(self) ==
    \/ self.options_data = None
    \/ self.options_data[1] = <<>>

\* the early returns: no snapshot or an empty one, or no inventory entry
ReturnsEarly(self) ==
    \/ self.options_data = None
    \/ self.options_data[1] = <<>>
    \/ DOMAIN get_full_inventory(self.state) = {}

\* mutant: the trade counter is not reset after a run
recalculate_gex_keeps_count(self, t) ==
    IF ReturnsEarly(self) THEN self
    ELSE LET sp         == get_spot_price(self.state)
             spot_price == IF TruthyNum(sp) THEN sp[1] ELSE DefaultSpot
             inv        == get_full_inventory(self.state)
             result     == calculate_gex(inv, self.options_data[1], spot_price, t)
         IN  [self EXCEPT !.state = store_gex_result(self.state, GexData(result), t),
                          !.last_calc_time = Some(t)]

recalculate_gex(self, t) ==
    IF ReturnsEarly(self) THEN self
    ELSE LET sp         == get_spot_price(self.state)
             spot_price == IF TruthyNum(sp) THEN sp[1] ELSE DefaultSpot
             inv        == get_full_inventory(self.state)
             result     == calculate_gex(inv, self.options_data[1], spot_price, t)
         IN  [self EXCEPT !.state = store_gex_result(self.state, GexData(result), t),
                          !.last_calc_time = Some(t),
                          !.trades_since_last_calc = 0]

----------------------------------------------------------------------------
(* Bounds and input sets *)

MaxOps == 4          \* store calls per behaviour of the sequential store

Strikes == {90000, 91000}
OptionTypes == {"call", "put"}
Deltas == {-15, -10, 10, 25}
SpotPrices == {0, 878000}
FlipLevels == {None, Some(905000), Some(906666)}
SampleResults == {[net_gex |-> n, flip_level |-> f] : n \in {-7, 12}, f \in FlipLevels}

Fields == {Field(K, t) : K \in Strikes, t \in OptionTypes}

----------------------------------------------------------------------------
(* HedgeIQStreamProcessor.__init__ *)

ProcInit ==
    /\ pc = "run_forever"
    /\ running = FALSE
    /\ ws = None
    /\ exc = FALSE
    /\ credentials = TRUE
    /\ trades_since_last_calc = 0
    /\ total_trades = 0
    /\ last_calc_time = None
    /\ options_data = None
    /\ last_options_refresh = None

IdleClients ==
    /\ prod = <<>>
    /\ reader = <<>>
    /\ decision = FALSE
    /\ client = "processor"
    /\ twin = None
    /\ inventory = NewInventory

----------------------------------------------------------------------------
(* SpecStore: one client calling the store API sequentially *)

InitStore ==
    /\ \E mem \in BOOLEAN : state = NewState(mem)
    /\ ProcInit
    /\ IdleClients
    /\ now = 0
    /\ hist = [applied |-> [f \in Fields |-> 0], stored |-> None,
               ops |-> 0, resets |-> 0, last |-> "init"]

StoreFrame == UNCHANGED <<pc, running, ws, exc, credentials, trades_since_last_calc, total_trades,
                          last_calc_time, options_data, last_options_refresh,
                          prod, reader, decision, client, twin, inventory>>

CallUpdate ==
    /\ hist.ops < MaxOps
    /\ \E K \in Strikes, t \in OptionTypes, d \in Deltas :
         /\ state' = update_dealer_position(state, K, t, d)
         /\ hist' = [hist EXCEPT !.applied[Field(K, t)] = @ + d,
                                 !.ops = @ + 1, !.last = "update"]
    /\ UNCHANGED now
    /\ StoreFrame

CallReset ==
    /\ hist.ops < MaxOps
    /\ state' = reset_inventory(state)
    /\ hist' = [hist EXCEPT !.applied = [f \in Fields |-> 0],
                            !.ops = @ + 1, !.resets = @ + 1, !.last = "reset"]
    /\ UNCHANGED now
    /\ StoreFrame

CallStoreGex ==
    /\ hist.ops < MaxOps
    /\ \E r \in SampleResults :
         /\ state' = store_gex_result(state, r, now)
         /\ hist' = [hist EXCEPT !.stored = Some(r), !.ops = @ + 1, !.last = "store"]
    /\ now' = now + 1
    /\ StoreFrame

CallSetSpot ==
    /\ hist.ops < MaxOps
    /\ \E p \in SpotPrices : state' = set_spot_price(state, p)
    /\ hist' = [hist EXCEPT !.ops = @ + 1, !.last = "spot"]
    /\ UNCHANGED now
    /\ StoreFrame

NextStore == CallUpdate \/ CallReset \/ CallStoreGex \/ CallSetSpot

SpecStore == InitStore /\ [][NextStore]_vars

\* C2: with a single writer, the position read back for every (strike, type)
\* is the sum of the deltas applied to it since the last reset_inventory (or
\* since construction), and 0 for a key with no delta since then.
PositionIsSumOfDeltas ==
    \A K \in Strikes, t \in OptionTypes :
        get_dealer_position(state, K, t) = hist.applied[Field(K, t)]

\* a reset has happened, one key was written again after it and reads non-zero,
\* another key was not and reads 0
PositionAfterResetWitness ==
    /\ hist.resets > 0
    /\ hist.last = "update"
    /\ \E f \in Fields : hist.applied[f] # 0 /\ get_dealer_position(state, f[1], f[2]) # 0
    /\ \E f \in Fields : hist.applied[f] = 0

\* C10 (as claimed): after every store_gex_result(r), get_flip_level() is r's
\* flip_level, and None when r has none.
FlipMirrorsCurrent ==
    hist.stored # None => get_flip_level(state) = hist.stored[1].flip_level

----------------------------------------------------------------------------
(* SpecBackends: one client driving a Redis-backed manager and an in-memory  *)
(* manager with the same sequence of calls                                  *)

MaxTwinOps == 4      \* store calls per behaviour of the paired managers

\* everything the read methods return
Reads(st) ==
    [position  |-> [f \in Fields |-> get_dealer_position(st, f[1], f[2])],
     inventory |-> get_full_inventory(st),
     gex       |-> get_gex_result(st),
     flip      |-> get_flip_level(st),
     spot      |-> get_spot_price(st)]

InitBackends ==
    /\ state = NewState(FALSE)
    /\ ProcInit
    /\ prod = <<>>
    /\ reader = <<>>
    /\ decision = FALSE
    /\ client = "processor"
    /\ inventory = NewInventory
    /\ twin = Some(NewState(TRUE))
    /\ now = 0
    /\ hist = [ops |-> 0, last |-> "init", returned |-> <<None, None>>,
               resets |-> 0, stores |-> 0]

BackendsFrame == UNCHANGED <<pc, running, ws, exc, credentials, trades_since_last_calc,
                             total_trades, last_calc_time, options_data,
                             last_options_refresh, prod, reader, decision, client,
                             inventory>>

BothUpdate ==
    /\ hist.ops < MaxTwinOps
    /\ \E K \in Strikes, t \in OptionTypes, d \in Deltas :
         /\ state' = update_dealer_position(state, K, t, d)
         /\ twin' = Some(update_dealer_position(twin[1], K, t, d))
         /\ hist' = [hist EXCEPT !.ops = @ + 1, !.last = "update",
                                 !.returned = <<Some(NewPosition(state, K, t, d)),
                                                Some(NewPosition(twin[1], K, t, d))>>]
    /\ UNCHANGED now
    /\ BackendsFrame

BothReset ==
    /\ hist.ops < MaxTwinOps
    /\ state' = reset_inventory(state)
    /\ twin' = Some(reset_inventory(twin[1]))
    /\ hist' = [hist EXCEPT !.ops = @ + 1, !.last = "reset", !.resets = @ + 1,
                            !.returned = <<None, None>>]
    /\ UNCHANGED now
    /\ BackendsFrame

BothStoreGex ==
    /\ hist.ops < MaxTwinOps
    /\ \E r \in SampleResults :
         /\ state' = store_gex_result(state, r, now)
         /\ twin' = Some(store_gex_result(twin[1], r, now))
    /\ hist' = [hist EXCEPT !.ops = @ + 1, !.last = "store", !.stores = @ + 1,
                            !.returned = <<None, None>>]
    /\ now' = now + 1
    /\ BackendsFrame

BothSetSpot ==
    /\ hist.ops < MaxTwinOps
    /\ \E p \in SpotPrices :
         /\ state' = set_spot_price(state, p)
         /\ twin' = Some(set_spot_price(twin[1], p))
    /\ hist' = [hist EXCEPT !.ops = @ + 1, !.last = "spot", !.returned = <<None, None>>]
    /\ UNCHANGED now
    /\ BackendsFrame

NextBackends == BothUpdate \/ BothReset \/ BothStoreGex \/ BothSetSpot

SpecBackends == InitBackends /\ [][NextBackends]_vars

\* C11: after the same sequence of calls the in-memory manager returns what
\* the Redis-backed manager returns, from every read method and from
\* update_dealer_position.
BackendsAgree ==
    /\ ~state.use_memory /\ twin[1].use_memory
    /\ Reads(state) = Reads(twin[1])
    /\ hist.returned[1] = hist.returned[2]

\* both managers hold a position and a Result, and a reset has happened
BackendsAfterResetWitness ==
    /\ hist.resets > 0
    /\ hist.stores > 0
    /\ hist.last = "update"
    /\ get_gex_result(twin[1]) # None
    /\ DOMAIN get_full_inventory(twin[1]) # {}

----------------------------------------------------------------------------
(* SpecConstruct: RedisStateManager.__init__ under every outcome of the      *)
(* connection attempt, followed by calls on the manager it returned          *)

MaxManagerOps == 3   \* calls on the constructed manager per behaviour

\* what redis.from_url(...) followed by ping() does: it returns, it raises
\* redis.ConnectionError (refused, rejected), or it raises something that is
\* not a ConnectionError (redis.TimeoutError when the attempt times out)
ConnectOutcomes == {"connected", "ConnectionError", "TimeoutError"}

\* __init__: the manager it leaves behind, or the exception is propagated
Constructor(use_memory, has_url, outcome) ==
    IF use_memory THEN [raised |-> FALSE, manager |-> Some(NewState(TRUE))]
    ELSE IF ~has_url THEN [raised |-> FALSE, manager |-> Some(NewState(TRUE))]
    ELSE IF outcome = "connected" THEN [raised |-> FALSE, manager |-> Some(NewState(FALSE))]
    ELSE IF outcome = "ConnectionError" THEN [raised |-> FALSE, manager |-> Some(NewState(TRUE))]
    ELSE [raised |-> TRUE, manager |-> None]

InitConstruct ==
    /\ state = NewState(TRUE)
    /\ ProcInit
    /\ prod = <<>>
    /\ reader = <<>>
    /\ decision = FALSE
    /\ client = "processor"
    /\ inventory = NewInventory
    /\ twin = None
    /\ now = 0
    /\ \E um \in BOOLEAN, url \in BOOLEAN, o \in ConnectOutcomes :
         hist = [phase |-> "new", use_memory |-> um, has_url |-> url, outcome |-> o,
                 ops |-> 0]

ConstructFrame == UNCHANGED <<state, pc, running, ws, exc, credentials,
                              trades_since_last_calc, total_trades, last_calc_time,
                              options_data, last_options_refresh, now, prod, reader,
                              decision, client, inventory>>

Construct ==
    /\ hist.phase = "new"
    /\ LET c == Constructor(hist.use_memory, hist.has_url, hist.outcome)
       IN  /\ twin' = c.manager
           /\ hist' = [hist EXCEPT !.phase = IF c.raised THEN "raised" ELSE "constructed"]
    /\ ConstructFrame

ManagerUpdate ==
    /\ hist.phase = "constructed"
    /\ hist.ops < MaxManagerOps
    /\ \E K \in Strikes, t \in OptionTypes, d \in Deltas :
         twin' = Some(update_dealer_position(twin[1], K, t, d))
    /\ hist' = [hist EXCEPT !.ops = @ + 1]
    /\ ConstructFrame

ManagerSetSpot ==
    /\ hist.phase = "constructed"
    /\ hist.ops < MaxManagerOps
    /\ \E p \in SpotPrices : twin' = Some(set_spot_price(twin[1], p))
    /\ hist' = [hist EXCEPT !.ops = @ + 1]
    /\ ConstructFrame

NextConstruct == Construct \/ ManagerUpdate \/ ManagerSetSpot

SpecConstruct == InitConstruct /\ [][NextConstruct]_vars

\* C12: the constructor never propagates an exception, and whenever the
\* durable backend was not reached the manager has use_memory set and keeps
\* everything in its in-memory dict.
ConstructionNeverAborts ==
    /\ hist.phase # "raised"
    /\ (hist.phase = "constructed"
        /\ (hist.use_memory \/ ~hist.has_url \/ hist.outcome # "connected"))
       => /\ twin[1].use_memory
          /\ twin[1].rhash = EmptyDict
          /\ twin[1].rstr = EmptyDict

----------------------------------------------------------------------------
(* SpecProducers: two processes, each with its own RedisStateManager on the   *)
(* same durable backend, call update_dealer_position.  The call is two        *)
(* commands on the server, HGET then HSET; commands of different clients      *)
(* interleave.                                                                *)

MaxCalls == 2        \* update_dealer_position calls per producer

Producers == {1, 2}

InitProducers ==
    /\ state = NewState(FALSE)
    /\ ProcInit
    /\ prod = [p \in Producers |-> [pc |-> "idle", field |-> <<>>, delta |-> 0,
                                    current |-> None, calls |-> 0]]
    /\ reader = <<>>
    /\ decision = FALSE
    /\ client = "processor"
    /\ twin = None
    /\ inventory = NewInventory
    /\ now = 0
    /\ hist = [applied |-> [f \in Fields |-> 0]]

ProducerFrame == UNCHANGED <<pc, running, ws, exc, credentials, trades_since_last_calc, total_trades,
                             last_calc_time, options_data, last_options_refresh,
                             now, reader, decision, client, twin, inventory>>

\* update_dealer_position up to and including current = self._hget(key, field)
ProducerRead(p) ==
    /\ prod[p].pc = "idle"
    /\ prod[p].calls < MaxCalls
    /\ \E K \in Strikes, t \in OptionTypes, d \in Deltas :
         prod' = [prod EXCEPT ![p] = [pc |-> "fetched", field |-> Field(K, t), delta |-> d,
                                      current |-> _hget(state, "dealer_inventory", Field(K, t)),
                                      calls |-> prod[p].calls]]
    /\ UNCHANGED <<state, hist>>
    /\ ProducerFrame

\* the rest of update_dealer_position: new_val from the value read, then _hset
ProducerWrite(p) ==
    /\ prod[p].pc = "fetched"
    /\ state' = _hset(state, "dealer_inventory", prod[p].field,
                      PyStr(NewValue(prod[p].current, prod[p].delta)))
    /\ hist' = [hist EXCEPT !.applied[prod[p].field] = @ + prod[p].delta]
    /\ prod' = [prod EXCEPT ![p].pc = "idle", ![p].calls = @ + 1]
    /\ ProducerFrame

NextProducers == \E p \in Producers : ProducerRead(p) \/ ProducerWrite(p)

SpecProducers == InitProducers /\ [][NextProducers]_vars

\* C3 (as claimed): no update is lost.  Once the calls of both producers have
\* returned, every position is its prior value (0) plus the sum of all deltas
\* applied to it.
NoLostUpdate ==
    (\A p \in Producers : prod[p].pc = "idle") =>
        \A f \in Fields : get_dealer_position(state, f[1], f[2]) = hist.applied[f]

----------------------------------------------------------------------------
(* SpecReader: the stream processor stores Results with store_gex_result on  *)
(* the durable backend while a second process reads gex:current, gex:flip     *)
(* and gex:last_updated (get_gex_result, get_flip_level, get_stats).          *)

MaxStores == 2       \* store_gex_result calls per behaviour

ReadKeys == {"current", "flip", "last_updated"}

InitReader ==
    /\ state = NewState(FALSE)
    /\ ProcInit
    /\ prod = <<>>
    /\ reader = [got |-> {}, current |-> None, flip |-> None, last_updated |-> None]
    /\ decision = FALSE
    /\ client = "processor"
    /\ twin = None
    /\ inventory = NewInventory
    /\ now = 0
    /\ hist = [pc |-> "idle", r |-> None, stores |-> {}]

ReaderFrame == UNCHANGED <<pc, running, ws, exc, credentials, trades_since_last_calc, total_trades,
                           last_calc_time, options_data, last_options_refresh,
                           prod, decision, client, twin, inventory>>

\* self._set("gex:current", json.dumps(gex_result))
WriteCurrent ==
    /\ hist.pc = "idle"
    /\ Cardinality(hist.stores) < MaxStores
    /\ \E r \in SampleResults :
         /\ state' = StoreCurrent(state, r)
         /\ hist' = [hist EXCEPT !.pc = "current_written", !.r = Some(r)]
    /\ UNCHANGED <<now, reader>>
    /\ ReaderFrame

\* self._set("gex:last_updated", datetime.now().isoformat())
WriteLastUpdated ==
    /\ hist.pc = "current_written"
    /\ state' = StoreLastUpdated(state, now + 1)
    /\ now' = now + 1
    /\ hist' = [hist EXCEPT !.pc = "updated_written",
                            !.stores = @ \cup {[r |-> hist.r[1], t |-> now + 1]}]
    /\ UNCHANGED reader
    /\ ReaderFrame

\* if gex_result.get("flip_level"): self._set("gex:flip", ...)
WriteFlip ==
    /\ hist.pc = "updated_written"
    /\ state' = StoreFlip(state, hist.r[1])
    /\ hist' = [hist EXCEPT !.pc = "idle"]
    /\ UNCHANGED <<now, reader>>
    /\ ReaderFrame

ReadCurrent ==
    /\ "current" \notin reader.got
    /\ reader' = [reader EXCEPT !.got = @ \cup {"current"}, !.current = get_gex_result(state)]
    /\ UNCHANGED <<state, now, hist>>
    /\ ReaderFrame

ReadFlip ==
    /\ "flip" \notin reader.got
    /\ reader' = [reader EXCEPT !.got = @ \cup {"flip"}, !.flip = get_flip_level(state)]
    /\ UNCHANGED <<state, now, hist>>
    /\ ReaderFrame

ReadLastUpdated ==
    /\ "last_updated" \notin reader.got
    /\ reader' = [reader EXCEPT !.got = @ \cup {"last_updated"},
                                !.last_updated = _get(state, "gex:last_updated")]
    /\ UNCHANGED <<state, now, hist>>
    /\ ReaderFrame

NextReader == WriteCurrent \/ WriteLastUpdated \/ WriteFlip
              \/ ReadCurrent \/ ReadFlip \/ ReadLastUpdated

SpecReader == InitReader /\ [][NextReader]_vars

\* C9 (as claimed): what a concurrent reader gets for gex:current, gex:flip and
\* gex:last_updated all belongs to one stored Result (or nothing was stored yet).
ReaderSeesOneResult ==
    reader.got = ReadKeys =>
        \/ reader.current = None /\ reader.flip = None /\ reader.last_updated = None
        \/ \E w \in hist.stores :
             /\ reader.current = Some(w.r)
             /\ reader.flip = w.r.flip_level
             /\ reader.last_updated = Some(w.t)

----------------------------------------------------------------------------
(* SpecTrade: the trade handler of either client applied to single trades *)

MaxTrades == 3       \* trades handled per behaviour

NameC90   == <<"B","T","C","-","2","7","D","E","C","2","4","-","9","0","0","0","0","-","C">>
NameP91   == <<"B","T","C","-","2","7","D","E","C","2","4","-","9","1","0","0","0","-","P">>
NameP90   == <<"B","T","C","-","7","J","A","N","2","5","-","9","0","0","0","0","-","P">>
NamePerp  == <<"B","T","C","-","P","E","R","P","E","T","U","A","L">>
NameEth   == <<"E","T","H","-","2","7","D","E","C","2","4","-","9","0","0","0","0","-","C">>
NameLower == <<"B","T","C","-","2","7","D","E","C","2","4","-","9","0","0","0","0","-","c">>

NameC90Newline == NameC90 \o <<"\n">>

OptionNames == {NameC90, NameP91, NameP90}
OtherNames == {NamePerp, NameEth, NameLower}
\* every sampled name the pattern of parse_instrument_name accepts
AcceptedNames == OptionNames \cup {NameC90Newline}
Amounts == {10, 25}

SampleTrades ==
    {[instrument_name |-> n, amount |-> a, direction |-> d] :
        n \in OptionNames, a \in Amounts, d \in {"buy", "sell"}}
    \cup {[instrument_name |-> n, amount |-> 10, direction |-> "buy"] : n \in OtherNames}
    \cup {[instrument_name |-> NameC90, amount |-> 10, direction |-> ""],
          [instrument_name |-> NameC90, amount |-> 10],
          [instrument_name |-> NameP91, direction |-> "sell"],
          [instrument_name |-> NameC90Newline, amount |-> 10, direction |-> "sell"],
          [instrument_name |-> NameP90, amount |-> 25, direction |-> "Buy"],
          [amount |-> 10, direction |-> "sell"]}

\* the "data" arrays of trade notifications: names that do not parse come
\* ahead of and between names that do
SampleTradeBatches ==
    {<<[instrument_name |-> NamePerp, amount |-> 10, direction |-> "buy"],
       [instrument_name |-> NameP91, amount |-> 10, direction |-> "sell"]>>,
     <<[instrument_name |-> NameEth, amount |-> 10, direction |-> "buy"],
       [instrument_name |-> NameC90, amount |-> 25, direction |-> "buy"],
       [amount |-> 10, direction |-> "sell"],
       [instrument_name |-> NameP90, amount |-> 10, direction |-> "sell"]>>,
     <<[instrument_name |-> NameC90, amount |-> 25, direction |-> "buy"],
       [instrument_name |-> NameP91, amount |-> 10, direction |-> "sell"],
       [instrument_name |-> NameC90, amount |-> 10, direction |-> "sell"]>>}

\* a sampled trade whose name the pattern accepts
Matches(tr) == "instrument_name" \in DOMAIN tr /\ tr.instrument_name \in AcceptedNames

CountMatching(batch) == Cardinality({i \in DOMAIN batch : Matches(batch[i])})

\* the dealer position a client holds for (K, t), read without side effect
Position(K, t) ==
    IF client = "processor" THEN get_dealer_position(state, K, t)
    ELSE IF K \in DOMAIN inventory.positions THEN inventory.positions[K][t] ELSE 0

InitTrade ==
    /\ client \in {"processor", "listener"}
    /\ twin = None
    /\ \E mem \in BOOLEAN : state = NewState(mem)
    /\ client = "listener" => state.use_memory
    /\ inventory = NewInventory
    /\ ProcInit
    /\ prod = <<>>
    /\ reader = <<>>
    /\ decision = FALSE
    /\ now = 0
    /\ hist = [trade |-> None, batch |-> None, handled |-> 0, parsed |-> 0, out |-> <<>>]

TradeFrame == UNCHANGED <<pc, running, ws, exc, credentials, last_calc_time, options_data,
                          last_options_refresh, now, prod, reader, decision, client, twin>>

\* await self.process_trade(trade)
HandleTrade ==
    /\ hist.handled < MaxTrades
    /\ \E trade \in SampleTrades :
         /\ hist' = [trade |-> Some(trade), batch |-> None,
                     handled |-> hist.handled + 1,
                     parsed |-> hist.parsed + CountMatching(<<trade>>),
                     out |-> IF client = "processor"
                             THEN process_trade(Self, trade).stdout ELSE <<>>]
         /\ IF client = "processor"
            THEN LET q == process_trade(Self, trade)
                 IN  /\ state' = q.state
                     /\ total_trades' = q.total_trades
                     /\ trades_since_last_calc' = q.trades_since_last_calc
                     /\ UNCHANGED inventory
            ELSE /\ inventory' = listener_process_trade(inventory, trade, now)
                 /\ UNCHANGED <<state, total_trades, trades_since_last_calc>>
    /\ TradeFrame

\* for trade in trades: await self.process_trade(trade)
HandleBatch ==
    /\ hist.handled < MaxTrades
    /\ \E trades \in SampleTradeBatches :
         /\ hist' = [trade |-> None, batch |-> Some(trades),
                     handled |-> hist.handled + 1,
                     parsed |-> hist.parsed + CountMatching(trades),
                     out |-> IF client = "processor"
                             THEN ProcessBatch(Self, trades).stdout ELSE <<>>]
         /\ IF client = "processor"
            THEN LET q == ProcessBatch(Self, trades)
                 IN  /\ state' = q.state
                     /\ total_trades' = q.total_trades
                     /\ trades_since_last_calc' = q.trades_since_last_calc
                     /\ UNCHANGED inventory
            ELSE /\ inventory' = ListenerBatch(inventory, trades, now)
                 /\ UNCHANGED <<state, total_trades, trades_since_last_calc>>
    /\ TradeFrame

NextTrade == HandleTrade \/ HandleBatch

SpecTrade == InitTrade /\ [][NextTrade]_vars

TradeKeys == (Strikes \cup {0, 9000}) \X OptionTypes

\* what the claim says a buy or sell of amount a does to the position of key k
\* when the trade is for key target
Moved(k, target, direction, a) ==
    IF k # target THEN 0 ELSE IF direction = "buy" THEN -a ELSE a

\* C1: a trade whose instrument name parses to (K, t), with amount a: taker
\* side buy lowers the position at (K, t) by exactly a, taker side sell raises
\* it by exactly a, and no other key changes.
TradeMovesPosition ==
    [][\A tr \in SampleTrades :
         (/\ hist'.trade = Some(tr)
          /\ hist'.handled = hist.handled + 1
          /\ DOMAIN tr = {"instrument_name", "amount", "direction"}
          /\ tr.direction \in {"buy", "sell"}
          /\ tr.instrument_name \in OptionNames)
         => LET target == IF tr.instrument_name = NameC90 THEN <<90000, "call">>
                          ELSE IF tr.instrument_name = NameP91 THEN <<91000, "put">>
                          ELSE <<90000, "put">>
            IN  \A k \in TradeKeys :
                  Position(k[1], k[2])' =
                      Position(k[1], k[2]) + Moved(k, target, tr.direction, tr.amount)
      ]_vars

\* a sell has just been applied on top of earlier buys: its key is long, another is short
TradeAppliedWitness ==
    /\ hist.trade # None
    /\ DOMAIN hist.trade[1] = {"instrument_name", "amount", "direction"}
    /\ hist.trade[1].direction = "sell"
    /\ hist.trade[1].instrument_name = NameP91
    /\ Position(91000, "put") > 0
    /\ Position(90000, "call") < 0

\* the key a sampled accepted name stands for
TargetOf(name) ==
    IF name \in {NameC90, NameC90Newline} THEN <<90000, "call">>
    ELSE IF name = NameP91 THEN <<91000, "put">>
    ELSE <<90000, "put">>

RECURSIVE BatchMoved(_, _)
BatchMoved(k, batch) ==
    IF batch = <<>> THEN 0
    ELSE (IF Matches(Head(batch))
          THEN Moved(k, TargetOf(Head(batch).instrument_name),
                     Head(batch).direction, Head(batch).amount)
          ELSE 0) + BatchMoved(k, Tail(batch))

LoggedIndices(batch) ==
    SortedSeq({i \in DOMAIN batch : Matches(batch[i]) /\ batch[i].amount >= 10})

\* the lines a notification leaves when its trades are applied in list order
\* on top of everything delivered before it: the position printed for the
\* i-th trade holds the trades before it and none after it
LinesInFeedOrder(batch) ==
    [j \in DOMAIN LoggedIndices(batch) |->
        [strike      |-> TargetOf(batch[LoggedIndices(batch)[j]].instrument_name)[1],
         option_type |-> TargetOf(batch[LoggedIndices(batch)[j]].instrument_name)[2],
         new_pos     |->
             Position(TargetOf(batch[LoggedIndices(batch)[j]].instrument_name)[1],
                      TargetOf(batch[LoggedIndices(batch)[j]].instrument_name)[2])
             + BatchMoved(TargetOf(batch[LoggedIndices(batch)[j]].instrument_name),
                          SubSeq(batch, 1, LoggedIndices(batch)[j]))]]

\* C32: trades are applied to the inventory strictly in the order the feed
\* delivers them: within a notification in list order, across notifications
\* in arrival order; no trade is applied before an earlier-delivered parsable
\* trade of the same connection.
TradesAppliedInFeedOrder ==
    [][\A batch \in SampleTradeBatches :
         (/\ client = "processor"
          /\ hist'.batch = Some(batch)
          /\ hist'.handled = hist.handled + 1)
         => hist'.out = LinesInFeedOrder(batch)
      ]_vars

\* a buy of 2.5 and a sell of 1.0 on the 90000 call arrived in one notification
\* after an earlier sell of 2.5: the lines read 0.0 and then +1.0
SameKeyTwiceWitness ==
    /\ client = "processor"
    /\ hist.handled = 2
    /\ hist.batch # None
    /\ Len(hist.out) = 3
    /\ hist.out[1] = [strike |-> 90000, option_type |-> "call", new_pos |-> 0]
    /\ hist.out[3] = [strike |-> 90000, option_type |-> "call", new_pos |-> 10]

----------------------------------------------------------------------------
(* SpecSched: should_recalculate() evaluated on drawn scheduler states *)

MaxSchedTrades == 11     \* largest trades_since_last_calc drawn

ElapsedSamples == {0, 1, 4, 5, 6, 45, 86399, 86400, 86402, 86405, 172803}

InitSched ==
    /\ state = NewState(TRUE)
    /\ IdleClients
    /\ pc = "listen"
    /\ running = TRUE
    /\ ws = None
    /\ exc = FALSE
    /\ credentials = TRUE
    /\ total_trades = 0
    /\ options_data = None
    /\ last_options_refresh = None
    /\ trades_since_last_calc \in 0..MaxSchedTrades
    /\ \E last \in {None, Some(0), Some(7)}, e \in ElapsedSamples :
         /\ last_calc_time = last
         /\ now = (IF last = None THEN 0 ELSE last[1]) + e
    /\ hist = [evaluated |-> FALSE]

\* if self.should_recalculate():
Evaluate ==
    /\ ~hist.evaluated
    /\ decision' = should_recalculate(last_calc_time, trades_since_last_calc, now)
    /\ hist' = [evaluated |-> TRUE]
    /\ UNCHANGED <<state, pc, running, ws, exc, credentials, trades_since_last_calc, total_trades,
                   last_calc_time, options_data, last_options_refresh, now,
                   prod, reader, client, twin, inventory>>

NextSched == Evaluate

SpecSched == InitSched /\ [][NextSched]_vars

\* C6 (as claimed): should_recalculate() is true exactly when no recalculation
\* has completed yet, or at least 10 trades were counted, or the full time
\* elapsed since last_calc_time is at least 5 seconds, however long it is.
RecalcExactlyWhenDue ==
    hist.evaluated =>
        (decision <=> \/ last_calc_time = None
                      \/ trades_since_last_calc >= 10
                      \/ now - last_calc_time[1] >= 5)

----------------------------------------------------------------------------
(* Spec: one feed client process, either stream_processor.py                 *)
(* (HedgeIQStreamProcessor, with main()'s signal handler installed) or        *)
(* deribit_websocket.py (DeribitTradeListener).                               *)

MaxAttempts == 2     \* calls of run() per behaviour
MaxTradeMsgs == 1    \* trade notifications received per behaviour
MaxTime == 45        \* last clock value, seconds

RecvTimeout == 45
RefreshSeconds == 300
RecvDelays == {0, 30}        \* seconds a recv() waits before a frame arrives

\* asyncio.sleep(5): the same delay on every retry
ReconnectDelay_growing(attempt) == 5 * attempt

ReconnectDelay(attempt) == 5

\* inbound JSON-RPC payloads
HeartbeatTest  == [method |-> "heartbeat", params |-> [type |-> "test_request"]]
HeartbeatPlain == [method |-> "heartbeat", params |-> [type |-> "heartbeat"]]
RpcResponse    == [id |-> 2, result |-> "ok"]
TradesChannel  == <<"trades", "option", "BTC", "raw">>
TradesMsg(batch) == [method |-> "subscription",
                     params |-> [channel |-> TradesChannel, data |-> batch]]
OtherChannelMsg == [method |-> "subscription",
                    params |-> [channel |-> <<"ticker", "BTC">>, data |-> <<>>]]
NoDataMsg == [method |-> "subscription", params |-> [channel |-> TradesChannel]]

BuyC90  == [instrument_name |-> NameC90, amount |-> 10, direction |-> "buy"]
SellP91 == [instrument_name |-> NameP91, amount |-> 25, direction |-> "sell"]
PerpTrade == [instrument_name |-> NamePerp, amount |-> 10, direction |-> "buy"]

\* a trade whose amount arrives as null
NullAmount == [instrument_name |-> NameP91, amount |-> Missing, direction |-> "buy"]

SampleBatches == {<<SellP91, PerpTrade>>, [i \in 1..10 |-> BuyC90], <<BuyC90, NullAmount>>}

Messages == {HeartbeatTest, HeartbeatPlain, RpcResponse, OtherChannelMsg, NoDataMsg}
            \cup {TradesMsg(b) : b \in SampleBatches}

\* what one wait on the socket ends with: a frame (data is None when the text
\* is not JSON), the 45 s timeout, or the connection closing
Events == {[kind |-> "timeout"], [kind |-> "closed"], [kind |-> "frame", data |-> None]}
          \cup {[kind |-> "frame", data |-> Some(m)] : m \in Messages}

DelaysOf(ev) == IF ev.kind = "timeout" THEN {RecvTimeout} ELSE RecvDelays

\* responses to public/auth and public/subscribe
RpcReplies == {[kind |-> "reply", data |-> [id |-> 1, result |-> "ok"]],
               [kind |-> "reply", data |-> [id |-> 1, error |-> "denied"]],
               [kind |-> "closed"]}

\* option chain as fetch_options_data builds it (rows within 30 days)
SnapshotA == << [strike |-> 90000, option_type |-> "call", expiration |-> 604800,
                 mark_iv |-> 5000, open_interest |-> 12],
                [strike |-> 90000, option_type |-> "call", expiration |-> 86400,
                 mark_iv |-> 3400, open_interest |-> 7],
                [strike |-> 91000, option_type |-> "put", expiration |-> 86400,
                 mark_iv |-> 3400, open_interest |-> 3],
                [strike |-> 90000, option_type |-> "put", expiration |-> 7200,
                 mark_iv |-> 4000, open_interest |-> 1] >>

\* results of the three REST queries: answered, answered with error bodies
\* that carry no "result", or a query raising
FetchOutcomes == {[kind |-> "ok", rows |-> SnapshotA, spot |-> 878000],
                  [kind |-> "ok", rows |-> <<>>, spot |-> 0],
                  [kind |-> "raise"]}

\* how the venue answered a fetch: a query raised, the bodies carried no
\* "result" (data.get("result", []) is empty and index_price defaults to 0),
\* or results came back
FetchKind(fo) ==
    IF fo.kind = "raise" THEN "raised"
    ELSE IF fo.rows = <<>> /\ fo.spot = 0 THEN "no_result" ELSE "result"

\* variant: a fetch also drops the stored Result
fetch_options_data_drops_result(self, fo) ==
    IF fo.kind = "raise" THEN [raised |-> TRUE, self |-> self]
    ELSE [raised |-> FALSE,
          self   |-> [self EXCEPT !.state = _set(set_spot_price(self.state, fo.spot),
                                                 "gex:current", <<>>),
                                  !.options_data = Some(fo.rows)]]

\* fetch_options_data: set_spot_price, then the snapshot replaced wholesale
fetch_options_data(self, fo) ==
    IF fo.kind = "raise" THEN [raised |-> TRUE, self |-> self]
    ELSE [raised |-> FALSE,
          self   |-> [self EXCEPT !.state = set_spot_price(self.state, fo.spot),
                                  !.options_data = Some(fo.rows)]]

IsHeartbeat(data) == DictGet(data, "method", "") = "heartbeat"

\* variant: no heartbeat is recognised as a test request
IsTestRequest_never(data) == FALSE

IsTestRequest(data) == DictGet(DictGet(data, "params", EmptyDict), "type", "") = "test_request"
HasChannel(data) == "params" \in DOMAIN data /\ "channel" \in DOMAIN data.params
\* channel.startswith("trades.option")
IsTradesChannel(channel) == Len(channel) >= 2 /\ channel[1] = "trades" /\ channel[2] = "option"
IsTradeNotification(data) == HasChannel(data) /\ IsTradesChannel(data.params.channel)

\* if self.should_recalculate(): await self.recalculate_gex()
ScheduledRecalc(self, t) ==
    IF should_recalculate(self.last_calc_time, self.trades_since_last_calc, t)
    THEN [self |-> recalculate_gex(self, t),
          recalc |-> IF ReturnsEarly(self) THEN "early" ELSE "stored"]
    ELSE [self |-> self, recalc |-> "none"]

\* (datetime.now() - last_options_refresh).seconds >= 300
RefreshDue(lor, t) == ((t - lor[1]) % SecondsPerDay) >= RefreshSeconds

\* what arrived, read off the payload itself: the receive timed out, the
\* connection closed, the text was not JSON, a heartbeat of either type, a
\* trades.option notification with or without its data, anything else
Inbound(ev) ==
    IF ev.kind # "frame" THEN ev.kind
    ELSE IF ev.data = None THEN "garbage"
    ELSE IF ev.data[1] = HeartbeatTest THEN "test_request"
    ELSE IF ev.data[1] = HeartbeatPlain THEN "heartbeat"
    ELSE IF ev.data[1] = NoDataMsg THEN "malformed_trades"
    ELSE IF ev.data[1] \in {TradesMsg(b) : b \in SampleBatches} THEN "trades"
    ELSE "other"

\* variant: the receive timeout is propagated after the probe
ProcessorOnTimeout_fatal(base, self, send_ok, t) ==
    [base EXCEPT !.raised = TRUE, !.sent = IF send_ok THEN "ping" ELSE "none"]

\* except asyncio.TimeoutError: send the public/test probe, recalculate if due
ProcessorOnTimeout(base, self, send_ok, t) ==
    IF ~send_ok THEN [base EXCEPT !.raised = TRUE]
    ELSE LET r == ScheduledRecalc(self, t)
         IN  [base EXCEPT !.self = r.self, !.recalc = r.recalc, !.sent = "ping"]

\* one iteration of the listen loop of HedgeIQStreamProcessor.run
ProcessorIteration(self, lor, ev, send_ok, fo, t) ==
    LET base == [self |-> self, last_options_refresh |-> lor, raised |-> FALSE,
                 event |-> ev.kind, recalc |-> "none", sent |-> "none", torn |-> FALSE]
    IN  IF ev.kind = "closed" THEN [base EXCEPT !.raised = TRUE]
        ELSE IF ev.kind = "timeout" THEN ProcessorOnTimeout(base, self, send_ok, t)
        ELSE IF ev.data = None THEN [base EXCEPT !.raised = TRUE, !.event = "garbage"]
        ELSE LET data == ev.data[1]
             IN  IF IsHeartbeat(data)
                 THEN IF IsTestRequest(data)
                      THEN [base EXCEPT !.event = "heartbeat", !.raised = ~send_ok,
                                        !.sent = IF send_ok THEN "pong" ELSE "none"]
                      ELSE [base EXCEPT !.event = "heartbeat"]
                 ELSE IF IsTradeNotification(data) /\ "data" \notin DOMAIN data.params
                 THEN [base EXCEPT !.raised = TRUE, !.event = "garbage"]
                 ELSE LET s1 == IF IsTradeNotification(data)
                                THEN ProcessBatch(self, data.params.data) ELSE self
                          r  == ScheduledRecalc(s1, t)
                          f  == fetch_options_data(r.self, fo)
                          kind == IF IsTradeNotification(data) THEN "trades" ELSE "other"
                      IN  IF s1.error
                          THEN [base EXCEPT !.self = [s1 EXCEPT !.error = FALSE],
                                            !.event = kind, !.raised = TRUE,
                                            !.torn = s1.total_trades # self.total_trades]
                          ELSE IF ~RefreshDue(lor, t)
                          THEN [base EXCEPT !.self = r.self, !.recalc = r.recalc, !.event = kind]
                          ELSE IF f.raised
                          THEN [base EXCEPT !.self = r.self, !.recalc = r.recalc,
                                            !.event = kind, !.raised = TRUE]
                          ELSE [base EXCEPT !.self = f.self, !.recalc = r.recalc,
                                            !.event = kind,
                                            !.last_options_refresh = Some(t)]

\* a trade of the list makes the handler raise: its name parses and its
\* amount is null
BatchRaises(trades) ==
    \E i \in DOMAIN trades :
        /\ parse_instrument_name(DictGet(trades[i], "instrument_name", <<>>)) # None
        /\ AmountRaises(trades[i])

\* the trades handled before the loop is left
AppliedPrefix(trades) ==
    IF ~BatchRaises(trades) THEN trades
    ELSE SubSeq(trades, 1,
                (CHOOSE i \in DOMAIN trades :
                    /\ BatchRaises(SubSeq(trades, 1, i))
                    /\ ~BatchRaises(SubSeq(trades, 1, i - 1))) - 1)

\* one iteration of the loop of DeribitTradeListener.listen
ListenerIteration(inv, ev, send_ok, t) ==
    LET base == [inventory |-> inv, raised |-> FALSE, event |-> ev.kind, sent |-> "none"]
    IN  IF ev.kind = "closed" THEN [base EXCEPT !.raised = TRUE]
        ELSE IF ev.kind = "timeout"
        THEN IF send_ok THEN [base EXCEPT !.sent = "ping"] ELSE [base EXCEPT !.raised = TRUE]
        ELSE IF ev.data = None THEN [base EXCEPT !.raised = TRUE, !.event = "garbage"]
        ELSE LET data == ev.data[1]
             IN  IF IsHeartbeat(data)
                 THEN IF IsTestRequest(data)
                      THEN [base EXCEPT !.event = "heartbeat", !.raised = ~send_ok,
                                        !.sent = IF send_ok THEN "pong" ELSE "none"]
                      ELSE [base EXCEPT !.event = "heartbeat"]
                 ELSE IF IsTradeNotification(data) /\ "data" \notin DOMAIN data.params
                 THEN [base EXCEPT !.raised = TRUE, !.event = "garbage"]
                 ELSE IF IsTradeNotification(data)
                 THEN [base EXCEPT !.inventory =
                                       ListenerBatch(inv, AppliedPrefix(data.params.data), t),
                                   !.raised = BatchRaises(data.params.data),
                                   !.event = "trades"]
                 ELSE [base EXCEPT !.event = "other"]

----------------------------------------------------------------------------
(* Actions of Spec *)

Init ==
    /\ client \in {"processor", "listener"}
    /\ twin = None
    /\ state = NewState(FALSE)
    /\ inventory = NewInventory
    /\ pc = "run_forever"
    /\ running = FALSE
    /\ ws = None
    /\ exc = FALSE
    /\ credentials \in BOOLEAN
    /\ trades_since_last_calc = 0
    /\ total_trades = 0
    /\ last_calc_time = None
    /\ options_data = None
    /\ last_options_refresh = None
    /\ prod = <<>>
    /\ reader = <<>>
    /\ decision = FALSE
    /\ now = 0
    /\ hist = [attempts |-> 0, sleeps |-> 0, stopped |-> FALSE, stoppedIn |-> "none",
               tradeMsgs |-> 0, step |-> "none", reply |-> "none", torn |-> FALSE,
               inbound |-> "none", event |-> "none", recalc |-> "none", sent |-> "none"]

Idle == UNCHANGED <<prod, reader, decision, client, twin, credentials>>

SelfUnchanged == UNCHANGED <<state, trades_since_last_calc, total_trades,
                             last_calc_time, options_data>>

SetSelf(self) ==
    /\ state' = self.state
    /\ total_trades' = self.total_trades
    /\ trades_since_last_calc' = self.trades_since_last_calc
    /\ last_calc_time' = self.last_calc_time
    /\ options_data' = self.options_data

\* an exception leaves run(): the except clauses re-raise, finally runs next
Raise == exc' = TRUE /\ pc' = "finally"

Quiet == hist' = [hist EXCEPT !.event = "none", !.inbound = "none", !.recalc = "none", !.sent = "none"]

\* variant: run() starts every attempt with fresh counters
RunEntry_resets_counters(self) ==
    [self EXCEPT !.total_trades = 0, !.trades_since_last_calc = 0]

\* self.running = True; self.start_time = datetime.now(): run() touches no
\* other field before its try block
RunEntry(self) == self

\* run_forever: while True: await self.run(); run() begins
StartRun ==
    /\ pc = "run_forever"
    /\ hist.attempts < MaxAttempts
    /\ IF client = "processor"
       THEN running' = TRUE /\ pc' = "fetch"
       ELSE UNCHANGED running /\ pc' = "connect"
    /\ hist' = [hist EXCEPT !.attempts = @ + 1, !.event = "none", !.inbound = "none",
                            !.recalc = "none", !.sent = "none",
                            !.step = "none", !.reply = "none"]
    /\ UNCHANGED <<ws, exc, last_options_refresh, now, inventory>>
    /\ SetSelf(RunEntry(Self))
    /\ Idle

\* await self.fetch_options_data()   (initial data fetch of the processor)
InitialFetch ==
    /\ pc = "fetch"
    /\ \E fo \in FetchOutcomes :
         LET f == fetch_options_data(Self, fo)
         IN  /\ SetSelf(f.self)
             /\ IF f.raised THEN Raise ELSE pc' = "connect" /\ UNCHANGED exc
             /\ hist' = [hist EXCEPT !.step = "fetch", !.reply = FetchKind(fo)]
    /\ UNCHANGED <<running, ws, last_options_refresh, now, inventory>>
    /\ Idle

\* self.ws = await websockets.connect(...)
Connect ==
    /\ pc = "connect"
    /\ \E ok \in BOOLEAN :
         IF ok THEN ws' = Some("open") /\ pc' = "auth" /\ UNCHANGED exc
         ELSE Raise /\ UNCHANGED ws
    /\ UNCHANGED <<running, last_options_refresh, now, inventory, hist>>
    /\ SelfUnchanged
    /\ Idle

\* what a handshake step got back: "result", "error" (a response without
\* "result") or "closed" (recv raised)
ReplyKind(reply) ==
    IF reply.kind = "closed" THEN "closed"
    ELSE IF "result" \in DOMAIN reply.data THEN "result" ELSE "error"

\* variant: any response to public/auth counts as success
AuthSucceeds_any_response(creds, reply) == creds /\ reply.kind = "reply"

\* if self.client_id and self.client_secret: ... if "result" in auth_data
AuthSucceeds(creds, reply) == creds /\ ReplyKind(reply) = "result"

\* if "result" in data; only subscribe_to_trades of the listener raises
\* otherwise, connect_websocket of the processor prints the response
SubscribeSucceeds(who, reply) ==
    /\ reply.kind = "reply"
    /\ ReplyKind(reply) = "result" \/ who = "processor"

\* public/auth: raise without credentials or when the response has no "result"
Authenticate ==
    /\ pc = "auth"
    /\ \E reply \in RpcReplies :
         /\ IF AuthSucceeds(credentials, reply)
            THEN pc' = "subscribe" /\ UNCHANGED exc
            ELSE Raise
         /\ hist' = [hist EXCEPT !.step = "auth",
                                 !.reply = IF credentials THEN ReplyKind(reply)
                                           ELSE "unsent"]
    /\ UNCHANGED <<running, ws, last_options_refresh, now, inventory>>
    /\ SelfUnchanged
    /\ Idle

\* public/subscribe: the listener raises when the response has no "result",
\* the processor prints the response and carries on
Subscribe ==
    /\ pc = "subscribe"
    /\ \E reply \in RpcReplies :
         /\ IF SubscribeSucceeds(client, reply)
            THEN pc' = "heartbeat" /\ UNCHANGED exc
            ELSE Raise
         /\ hist' = [hist EXCEPT !.step = "subscribe", !.reply = ReplyKind(reply)]
    /\ UNCHANGED <<running, ws, last_options_refresh, now, inventory>>
    /\ SelfUnchanged
    /\ Idle

\* public/set_heartbeat; the listener sets running on entering listen(), the
\* processor notes last_options_refresh before its loop
EnableHeartbeat ==
    /\ pc = "heartbeat"
    /\ running' = (IF client = "listener" THEN TRUE ELSE running)
    /\ \E ok \in BOOLEAN :
         IF ok
         THEN /\ pc' = "listen"
              /\ UNCHANGED exc
              /\ last_options_refresh' =
                    (IF client = "processor" THEN Some(now) ELSE last_options_refresh)
         ELSE Raise /\ UNCHANGED last_options_refresh
    /\ hist' = [hist EXCEPT !.step = "none", !.reply = "none"]
    /\ UNCHANGED <<ws, now, inventory>>
    /\ SelfUnchanged
    /\ Idle

\* whether a send can fail matters only where the iteration sends: the ping
\* after a timeout and the reply to a test_request
SendOutcomes(ev) ==
    IF \/ ev.kind = "timeout"
       \/ ev.kind = "frame" /\ ev.data # None /\ IsHeartbeat(ev.data[1]) /\ IsTestRequest(ev.data[1])
    THEN BOOLEAN ELSE {TRUE}

\* the REST queries run only when the refresh is due
RefreshOutcomes(lor, t) ==
    IF RefreshDue(lor, t) THEN FetchOutcomes ELSE {[kind |-> "raise"]}

\* while self.running: one iteration of the processor's loop, as long as the
\* clock stays within limit
ListenUntil(limit) ==
    /\ client = "processor"
    /\ pc = "listen"
    /\ running
    /\ \E ev \in Events, d \in RecvDelays \cup {RecvTimeout} :
         \E send_ok \in SendOutcomes(ev), fo \in RefreshOutcomes(last_options_refresh, now + d) :
            LET t    == now + d
                out  == ProcessorIteration(Self, last_options_refresh, ev, send_ok, fo, t)
                isTr == ev.kind = "frame" /\ ev.data # None /\ IsTradeNotification(ev.data[1])
            IN  /\ d \in DelaysOf(ev)
                /\ t <= limit
                /\ isTr => hist.tradeMsgs < MaxTradeMsgs
                /\ now' = t
                /\ SetSelf(out.self)
                /\ last_options_refresh' = out.last_options_refresh
                /\ IF out.raised THEN Raise ELSE UNCHANGED <<exc, pc>>
                /\ hist' = [hist EXCEPT !.event = out.event, !.inbound = Inbound(ev),
                                        !.torn = @ \/ out.torn,
                                        !.recalc = out.recalc,
                                        !.sent = out.sent,
                                        !.tradeMsgs = IF isTr THEN @ + 1 ELSE @]
    /\ UNCHANGED <<running, ws, inventory>>
    /\ Idle

ProcessorListen == ListenUntil(MaxTime)

\* while self.running: one iteration of the listener's loop; an exception
\* unwinds through listen()'s finally, which clears running
ListenerListen ==
    /\ client = "listener"
    /\ pc = "listen"
    /\ running
    /\ \E ev \in Events :
         \E send_ok \in SendOutcomes(ev), d \in DelaysOf(ev) :
            LET t    == now + d
                out  == ListenerIteration(inventory, ev, send_ok, t)
                isTr == ev.kind = "frame" /\ ev.data # None /\ IsTradeNotification(ev.data[1])
            IN  /\ t <= MaxTime
                /\ isTr => hist.tradeMsgs < MaxTradeMsgs
                /\ now' = t
                /\ inventory' = out.inventory
                /\ IF out.raised THEN Raise /\ running' = FALSE
                   ELSE UNCHANGED <<exc, pc, running>>
                /\ hist' = [hist EXCEPT !.event = out.event, !.inbound = Inbound(ev),
                                        !.recalc = "none",
                                        !.sent = out.sent,
                                        !.tradeMsgs = IF isTr THEN @ + 1 ELSE @]
    /\ UNCHANGED <<ws, last_options_refresh>>
    /\ SelfUnchanged
    /\ Idle

\* the loop test fails: running was cleared by stop()
LoopExit ==
    /\ pc = "listen"
    /\ ~running
    /\ pc' = "finally"
    /\ Quiet
    /\ UNCHANGED <<running, ws, exc, last_options_refresh, now, inventory>>
    /\ SelfUnchanged
    /\ Idle

\* variant: the finally block leaves the connection as it is
CloseIfSet_leaves_open(w) == w

\* if self.ws: await self.ws.close()
CloseIfSet(w) == IF w # None THEN Some("closed") ELSE w

\* finally: self.running = False; if self.ws: await self.ws.close(); then
\* run() either re-raises to run_forever's handler or returns to its loop
Finally ==
    /\ pc = "finally"
    /\ running' = (IF client = "processor" THEN FALSE ELSE running)
    /\ ws' = CloseIfSet(ws)
    /\ pc' = (IF exc THEN "sleep" ELSE "run_forever")
    /\ Quiet
    /\ UNCHANGED <<exc, last_options_refresh, now, inventory>>
    /\ SelfUnchanged
    /\ Idle

\* except Exception: await asyncio.sleep(5); self.ws = None; self.running = False
ReconnectSleep ==
    /\ pc = "sleep"
    /\ now + ReconnectDelay(hist.sleeps + 1) <= MaxTime
    /\ now' = now + ReconnectDelay(hist.sleeps + 1)
    /\ ws' = None
    /\ running' = FALSE
    /\ exc' = FALSE
    /\ pc' = "run_forever"
    /\ hist' = [hist EXCEPT !.sleeps = @ + 1, !.event = "none", !.inbound = "none",
                            !.recalc = "none", !.sent = "none",
                            !.step = "none", !.reply = "none"]
    /\ UNCHANGED <<last_options_refresh, inventory>>
    /\ SelfUnchanged
    /\ Idle

\* stop(), called by main()'s handler for SIGINT and SIGTERM
Stop ==
    /\ client = "processor"
    /\ ~hist.stopped
    /\ running' = FALSE
    /\ hist' = [hist EXCEPT !.stopped = TRUE, !.stoppedIn = pc]
    /\ UNCHANGED <<pc, ws, exc, last_options_refresh, now, inventory>>
    /\ SelfUnchanged
    /\ Idle

Next == StartRun \/ InitialFetch \/ Connect \/ Authenticate \/ Subscribe
        \/ EnableHeartbeat \/ ProcessorListen \/ ListenerListen \/ LoopExit
        \/ Finally \/ ReconnectSleep \/ Stop

Spec == Init /\ [][Next]_vars

----------------------------------------------------------------------------
(* Properties of Spec *)

\* C4: an attempt that ends with an error, whatever its phase, is followed by
\* the 5-second sleep and then by a new call of run(); the sleep is 5 seconds
\* on every retry and run_forever has no state in which it has given up.
RetryAfterFixedDelay ==
    [][ /\ (pc = "finally" /\ exc /\ pc' # pc) => pc' = "sleep"
        /\ (pc = "sleep" /\ pc' # pc) =>
              pc' = "run_forever" /\ now' = now + 5 /\ ~exc' /\ ws' = None
        /\ (pc = "run_forever" /\ pc' # pc) =>
              pc' \in {"fetch", "connect"} /\ hist'.attempts = hist.attempts + 1
        /\ pc' \in {"run_forever", "fetch", "connect", "auth", "subscribe",
                    "heartbeat", "listen", "finally", "sleep"} ]_vars

\* a second attempt has connected and is authenticating, 5 seconds or more
\* after the first one failed
RetriedAfterErrorWitness ==
    /\ hist.attempts = 2
    /\ hist.sleeps = 1
    /\ pc = "auth"
    /\ ws = Some("open")
    /\ now >= 5

\* C5: once stop() has been delivered while the listen loop is running, no
\* further call of run() is started.
NoAttemptAfterStop ==
    [][(hist.stopped /\ hist.stoppedIn = "listen") =>
          hist'.attempts = hist.attempts]_vars

\* C7: after every invocation of recalculate_gex by the listen loop, early
\* return or not, trades_since_last_calc is 0 and last_calc_time is the time
\* of that run.
EveryRunResetsCounters ==
    hist.recalc # "none" =>
        trades_since_last_calc = 0 /\ last_calc_time = Some(now)

\* C7 (amended): an invocation that stores a Result leaves
\* trades_since_last_calc at 0 and last_calc_time at the time of the run; an
\* invocation that returns early (no snapshot, empty snapshot or empty
\* inventory) leaves last_calc_time as it was and does not reset the counter.
StoredRunResetsCounters ==
    [][ /\ hist'.recalc = "stored" =>
              trades_since_last_calc' = 0 /\ last_calc_time' = Some(now')
        /\ hist'.recalc = "early" =>
              /\ last_calc_time' = last_calc_time
              /\ trades_since_last_calc' >= trades_since_last_calc ]_vars

\* a batch of trades was applied and the run that followed stored a Result
StoredRunWitness ==
    /\ hist.recalc = "stored"
    /\ hist.event = "trades"
    /\ total_trades > 0
    /\ get_gex_result(state) # None

\* C8: at the end of every iteration of the listen loop, with a non-empty
\* snapshot and inventory, no applied trade is left waiting for a run that is
\* due: fewer than 10 trades are pending and less than 5 seconds have passed
\* since the last run.
StalenessBounded ==
    ( /\ client = "processor"
      /\ pc = "listen"
      /\ hist.event \in {"heartbeat", "trades", "other", "timeout"}
      /\ trades_since_last_calc > 0
      /\ ~ReturnsEarly(Self) )
    => /\ trades_since_last_calc < calc_every_n_trades
       /\ last_calc_time # None
       /\ now - last_calc_time[1] < calc_interval_seconds

\* C13: an attempt without credentials, or whose auth response has no
\* "result", fails at the authentication step: the subscribe step is entered
\* only from a successful authentication, nothing is applied to the inventory
\* or the counters, and the failed attempt goes on to the reconnect sleep.
AuthFailureEndsAttempt ==
    [][ /\ (pc = "auth" /\ pc' # pc /\ (~credentials \/ hist'.reply # "result")) =>
              /\ pc' = "finally" /\ exc'
              /\ state' = state /\ inventory' = inventory
              /\ total_trades' = total_trades
              /\ trades_since_last_calc' = trades_since_last_calc
        /\ (pc' = "subscribe" /\ pc # pc') =>
              pc = "auth" /\ credentials /\ hist'.reply = "result"
        /\ (pc = "finally" /\ hist.step = "auth" /\ pc' # pc) =>
              exc /\ pc' = "sleep"
        /\ (pc = "sleep" /\ pc' # pc) => pc' = "run_forever" ]_vars

\* the auth response carried an error and the attempt is being abandoned
AuthRejectedWitness ==
    /\ credentials
    /\ pc = "finally"
    /\ exc
    /\ hist.step = "auth"
    /\ hist.reply = "error"
    /\ ws = Some("open")

\* C14: a subscribe response without "result" fails the attempt: the client
\* does not go on to the listen loop and the attempt ends in the error path.
SubscribeNeedsAck ==
    [][ (pc = "subscribe" /\ pc' # pc /\ hist'.reply = "error") =>
            pc' = "finally" /\ exc' ]_vars

\* C15: a receive timeout does not end the attempt: the inventory, the
\* connection and the attempt count are unchanged, the public/test probe is
\* sent and the loop goes on; the attempt ends on a timeout only when sending
\* the probe itself fails.
TimeoutNotFatal ==
    [][ (pc = "listen" /\ hist'.inbound = "timeout" /\ now' = now + RecvTimeout) =>
            /\ inventory' = inventory
            /\ get_full_inventory(state') = get_full_inventory(state)
            /\ total_trades' = total_trades
            /\ ws' = ws
            /\ hist'.attempts = hist.attempts
            /\ hist'.sent = "ping" => (pc' = "listen" /\ ~exc')
            /\ pc' # "listen" => hist'.sent = "none" ]_vars

\* a timeout was answered with a probe while a position was held, and the
\* client is still listening
TimeoutProbedWitness ==
    /\ pc = "listen"
    /\ hist.inbound = "timeout"
    /\ hist.sent = "ping"
    /\ total_trades > 0
    /\ ws = Some("open")
    /\ ~exc

\* C16: a heartbeat of either type changes neither the store, the inventory
\* nor the trade counters; a test_request is answered with one public/test
\* before the loop receives again, a plain heartbeat is not answered.
HeartbeatAnsweredNotForwarded ==
    [][ (pc = "listen" /\ hist'.inbound \in {"heartbeat", "test_request"}) =>
            /\ state' = state
            /\ inventory' = inventory
            /\ total_trades' = total_trades
            /\ trades_since_last_calc' = trades_since_last_calc
            /\ last_calc_time' = last_calc_time
            /\ (hist'.inbound = "test_request" /\ pc' = "listen") => hist'.sent = "pong"
            /\ hist'.inbound = "heartbeat" => (hist'.sent = "none" /\ pc' = "listen") ]_vars

\* a test_request arrived while trades were pending and was answered
TestRequestAnsweredWitness ==
    /\ pc = "listen"
    /\ hist.inbound = "test_request"
    /\ hist.sent = "pong"
    /\ trades_since_last_calc > 0

\* C17: a payload that is neither a heartbeat nor a well-formed trades.option
\* notification leaves the inventory and the trade counters as they were and
\* the client listening on the same connection.
UnrecognizedIgnored ==
    [][ (pc = "listen" /\ hist'.inbound \in {"garbage", "malformed_trades", "other"}) =>
            /\ pc' = "listen"
            /\ ~exc'
            /\ inventory' = inventory
            /\ get_full_inventory(state') = get_full_inventory(state)
            /\ total_trades' = total_trades
            /\ trades_since_last_calc' = trades_since_last_calc ]_vars

\* C20 (as claimed): when a fetch of the snapshot fails (a query raises, or the
\* venue answers with bodies that carry no result) while a snapshot is held,
\* the held snapshot and the stored spot price stay as they were.
FailedRefreshKeepsSnapshot ==
    [][ (/\ pc = "fetch"
         /\ pc' # pc
         /\ options_data # None
         /\ hist'.reply \in {"raised", "no_result"})
        => /\ options_data' = options_data
           /\ get_spot_price(state') = get_spot_price(state)
      ]_vars

\* C21 (as claimed): a failed fetch of the snapshot does not block the feed or
\* the Engine: at the start of an attempt the client still goes on to connect,
\* and the snapshot it held is the one recalculation goes on using.
FailedRefreshDoesNotBlock ==
    [][ (/\ pc = "fetch"
         /\ pc' # pc
         /\ hist'.reply \in {"raised", "no_result"})
        => /\ pc' = "connect"
           /\ options_data' = options_data
      ]_vars

\* C24: the Engine only reads its inputs and is the only writer of the
\* Result: gex:current changes only in a step in which recalculate_gex stored a
\* Result (never in a step that only handles trades, a heartbeat or a fetch),
\* and a recalculation with no trade in its step leaves the inventory (key set
\* included) and the snapshot as they were.
EngineOnlyWritesResult ==
    [][ /\ _get(state', "gex:current") # _get(state, "gex:current")
           => /\ pc = "listen"
              /\ hist'.recalc = "stored"
        /\ (pc = "listen" /\ hist'.inbound = "timeout" /\ hist'.recalc = "stored")
           => /\ get_full_inventory(state') = get_full_inventory(state)
              /\ options_data' = options_data
      ]_vars

\* a recalculation on a receive timeout has stored a Result for a held inventory
RecalcOnTimeoutWitness ==
    /\ hist.inbound = "timeout"
    /\ hist.recalc = "stored"
    /\ get_gex_result(state) # None
    /\ DOMAIN get_full_inventory(state) # {}
    /\ options_data # None

----------------------------------------------------------------------------
(* SpecEngine: calculate_gex called on drawn inventories, snapshots and spot *)
(* prices, at different clock values                                         *)

MaxEngineCalls == 2      \* calls of calculate_gex per behaviour
MaxEngineTime == 60      \* last clock value, seconds

EngineSpots == {878000, 900000}
EnginePositions == {-10, 0, 25}

\* {strike: {"call": position, "put": position}} over some strikes
InventoriesOver(S) == [S -> [call : EnginePositions, put : EnginePositions]]

EngineInventories ==
    InventoriesOver({}) \cup InventoriesOver({90000}) \cup InventoriesOver({91000})
    \cup InventoriesOver({90000, 91000}) \cup InventoriesOver({150000})

\* the nearest 90000 call has no mark_iv, the next expiry has one
SnapshotNearMissing ==
    << [strike |-> 90000, option_type |-> "call", expiration |-> 86400,
        mark_iv |-> Missing, open_interest |-> 0],
       [strike |-> 90000, option_type |-> "call", expiration |-> 604800,
        mark_iv |-> 5000, open_interest |-> 12],
       [strike |-> 91000, option_type |-> "put", expiration |-> 86400,
        mark_iv |-> 3400, open_interest |-> 3] >>

\* a strike far above spot, three hours from expiry
SnapshotFar ==
    << [strike |-> 150000, option_type |-> "call", expiration |-> 10800,
        mark_iv |-> 3400, open_interest |-> 1],
       [strike |-> 90000, option_type |-> "call", expiration |-> 86400,
        mark_iv |-> 3400, open_interest |-> 7] >>

\* 7180 seconds from expiry at clock 0
SnapshotEdge ==
    << [strike |-> 90000, option_type |-> "put", expiration |-> 7180,
        mark_iv |-> 4000, open_interest |-> 1],
       [strike |-> 91000, option_type |-> "put", expiration |-> 604800,
        mark_iv |-> 3400, open_interest |-> 3] >>

\* every row is expired or within the filter's margin
SnapshotExpired ==
    << [strike |-> 90000, option_type |-> "call", expiration |-> 3600,
        mark_iv |-> 3400, open_interest |-> 7],
       [strike |-> 91000, option_type |-> "put", expiration |-> 0,
        mark_iv |-> 3400, open_interest |-> 3] >>

\* the 90000 call is quoted with an implied volatility of 0
SnapshotZeroVol ==
    << [strike |-> 90000, option_type |-> "call", expiration |-> 86400,
        mark_iv |-> 0, open_interest |-> 2],
       [strike |-> 91000, option_type |-> "put", expiration |-> 86400,
        mark_iv |-> 3400, open_interest |-> 3] >>

\* pd.DataFrame(options_list): with no instrument the frame has no columns
EngineSnapshots == {<<>>, SnapshotA, SnapshotNearMissing, SnapshotFar, SnapshotEdge,
                    SnapshotExpired, SnapshotZeroVol}

\* options_filtered['expiration'] raises KeyError on a frame without columns
CalculateRaises(options) == options = <<>>

\* variant: dealer_inventory[strike] is read without the membership test, as
\* through a defaultdict
InventoryAfter_vivify(dealer_inventory, rows) ==
    [K \in DOMAIN dealer_inventory \cup {r.strike : r \in rows} |->
        IF K \in DOMAIN dealer_inventory THEN dealer_inventory[K]
        ELSE [call |-> 0, put |-> 0]]

\* the inventory mapping after the loop over options_filtered: it is read
\* behind "if strike in dealer_inventory" and with .get, so no key is added
InventoryAfter(dealer_inventory, rows) == dealer_inventory

\* one call of calculate_gex at clock t
EngineCall(dealer_inventory, options, btc_price, t) ==
    IF CalculateRaises(options)
    THEN [t |-> t, raised |-> TRUE, rows |-> {}, points |-> {}, result |-> None,
          inventory |-> dealer_inventory, options |-> options]
    ELSE [t |-> t, raised |-> FALSE,
          rows      |-> NearestExpiries(options, t),
          points    |-> GexPoints(dealer_inventory, NearestExpiries(options, t), btc_price, t),
          result    |-> Some(calculate_gex(dealer_inventory, options, btc_price, t)),
          inventory |-> InventoryAfter(dealer_inventory, NearestExpiries(options, t)),
          options   |-> options]

InitEngine ==
    /\ state = NewState(TRUE)
    /\ IdleClients
    /\ pc = "listen"
    /\ running = TRUE
    /\ ws = None
    /\ exc = FALSE
    /\ credentials = TRUE
    /\ total_trades = 0
    /\ trades_since_last_calc = 0
    /\ last_calc_time = None
    /\ last_options_refresh = None
    /\ now = 0
    /\ \E snapshot \in EngineSnapshots : options_data = Some(snapshot)
    /\ \E inv \in EngineInventories, spot \in EngineSpots :
         hist = [inventory |-> inv, spot |-> spot, calls |-> 0, first |-> None, last |-> None]

EngineFrame == UNCHANGED <<state, prod, reader, decision, client, twin, inventory, pc, running,
                           ws, exc, credentials, total_trades, trades_since_last_calc,
                           last_calc_time, last_options_refresh>>

\* result = self.gex_calculator.calculate_gex(inventory, options_data, spot)
Calculate ==
    /\ hist.calls < MaxEngineCalls
    /\ LET call == EngineCall(hist.inventory, options_data[1], hist.spot, now)
       IN  /\ hist' = [hist EXCEPT !.calls = @ + 1,
                                   !.inventory = call.inventory,
                                   !.first = IF hist.first = None THEN Some(call) ELSE @,
                                   !.last = Some(call)]
           /\ options_data' = Some(call.options)
    /\ UNCHANGED now
    /\ EngineFrame

\* the clock moves on between two calls
Advance ==
    /\ now + 30 <= MaxEngineTime
    /\ now' = now + 30
    /\ UNCHANGED <<hist, options_data>>
    /\ EngineFrame

NextEngine == Calculate \/ Advance

SpecEngine == InitEngine /\ [][NextEngine]_vars

\* the last call, once there is one
LastCall == hist.last[1]

\* C22 (as claimed): calculate_gex never raises for insufficient input: with a
\* snapshot without instruments, or one the expiry filter empties, or an empty
\* inventory, or no data point, it returns the sentinel Result.
SentinelOnInsufficientInput ==
    (/\ hist.last # None
     /\ \/ options_data[1] = <<>>
        \/ \A i \in DOMAIN options_data[1] : ~PassesExpiryFilter(options_data[1][i], LastCall.t)
        \/ DOMAIN hist.inventory = {}
        \/ LastCall.points = {})
    => /\ ~LastCall.raised
       /\ LastCall.result # None
       /\ LastCall.result[1].net_gex = 0
       /\ LastCall.result[1].flip_level = None
       /\ LastCall.result[1].max_support = <<0, 0>>
       /\ LastCall.result[1].max_resistance = <<0, 0>>
       /\ LastCall.result[1].gex_by_strike = <<>>

\* C23 (as claimed): two calls with the same inventory, snapshot and spot,
\* made at different times, return the same net_gex, flip_level, max_support,
\* max_resistance and per-strike breakdown.
SameResultAtAnyTime ==
    (/\ hist.calls = 2
     /\ ~hist.first[1].raised
     /\ ~LastCall.raised)
    => /\ hist.first[1].result[1].net_gex = LastCall.result[1].net_gex
       /\ hist.first[1].result[1].flip_level = LastCall.result[1].flip_level
       /\ hist.first[1].result[1].max_support = LastCall.result[1].max_support
       /\ hist.first[1].result[1].max_resistance = LastCall.result[1].max_resistance
       /\ hist.first[1].result[1].gex_by_strike = LastCall.result[1].gex_by_strike

\* C25 (as claimed): no instrument that is expired or at most 7200 seconds from
\* expiry contributes a data point, and every instrument more than 7200
\* seconds from expiry passes the filter.
NothingWithinTwoHoursContributes ==
    hist.last # None =>
        /\ \A p \in LastCall.points : p.dte_seconds > 7200
        /\ \A i \in DOMAIN options_data[1] :
              options_data[1][i].expiration - LastCall.t > 7200
              => PassesExpiryFilter(options_data[1][i], LastCall.t)

\* C26 (as claimed): each data point stands for exactly one instrument of its
\* (strike, option type): the surviving one nearest to expiry, which supplies
\* both the time to expiry and the implied volatility of the point.
NearestSuppliesExpiryAndVol ==
    hist.last # None =>
        \A p \in LastCall.points :
            \E i \in DOMAIN options_data[1] :
                LET row == options_data[1][i]
                IN  /\ row.strike = p.strike
                    /\ row.option_type = p.option_type
                    /\ PassesExpiryFilter(row, LastCall.t)
                    /\ \A j \in DOMAIN options_data[1] :
                          (/\ options_data[1][j].strike = p.strike
                           /\ options_data[1][j].option_type = p.option_type
                           /\ PassesExpiryFilter(options_data[1][j], LastCall.t))
                          => row.expiration <= options_data[1][j].expiration
                    /\ p.dte_seconds = row.expiration - LastCall.t
                    /\ p.mark_iv = row.mark_iv

\* C27 (as claimed): the weighted exposure of every data point (sigma > 0 and
\* T > 0 hold for each) has the sign of the dealer position, strictly.
SignFollowsPosition ==
    hist.last # None =>
        \A p \in LastCall.points :
            /\ p.dte_seconds > 0 /\ NormalisedSigma(p.mark_iv) > 0
            /\ p.dealer_position > 0 => p.gex_weighted > 0
            /\ p.dealer_position < 0 => p.gex_weighted < 0

\* the weighted contribution of (K, type) among the data points, 0 if none
Contribution(points, K, type) ==
    SumOver({p \in points : p.strike = K /\ p.option_type = type},
            [p \in points |-> p.gex_weighted])

\* C28: net_gex is the sum over the strikes of the per-strike aggregate, each
\* aggregate is the call contribution plus the put contribution of its strike,
\* and with one data point net_gex is that point's weighted contribution.
NetGexIsSumOfContributions ==
    (hist.last # None /\ LastCall.points # {}) =>
        LET r  == LastCall.result[1]
            by == r.gex_by_strike
        IN  /\ {by[i].strike : i \in DOMAIN by} = {p.strike : p \in LastCall.points}
            /\ \A i \in DOMAIN by :
                  by[i].gex = Contribution(LastCall.points, by[i].strike, "call")
                              + Contribution(LastCall.points, by[i].strike, "put")
            /\ r.net_gex = SumOver(DOMAIN by, [i \in DOMAIN by |-> by[i].gex])
            /\ \A p \in LastCall.points :
                  LastCall.points = {p} => r.net_gex = p.gex_weighted

\* calls and puts at one strike and a put at another all contribute
ThreeContributionsWitness ==
    /\ hist.last # None
    /\ Cardinality(LastCall.points) = 3
    /\ Len(LastCall.result[1].gex_by_strike) = 2
    /\ LastCall.result[1].net_gex # 0
    /\ \E p, q \in LastCall.points : p.strike = q.strike /\ p.option_type # q.option_type

\* C29: max_support is the (strike, value) of the largest aggregate when some
\* aggregate is positive and (0, 0) otherwise; max_resistance is that of the
\* smallest when some aggregate is negative and (0, 0) otherwise; so the value
\* of max_support is never negative and that of max_resistance never positive.
ExtremesAreSignGuarded ==
    (hist.last # None /\ LastCall.points # {}) =>
        LET r  == LastCall.result[1]
            by == r.gex_by_strike
        IN  /\ IF \E i \in DOMAIN by : by[i].gex > 0
               THEN \E i \in DOMAIN by :
                       /\ r.max_support = <<by[i].strike, by[i].gex>>
                       /\ \A j \in DOMAIN by : by[j].gex <= by[i].gex
               ELSE r.max_support = <<0, 0>>
            /\ IF \E i \in DOMAIN by : by[i].gex < 0
               THEN \E i \in DOMAIN by :
                       /\ r.max_resistance = <<by[i].strike, by[i].gex>>
                       /\ \A j \in DOMAIN by : by[j].gex >= by[i].gex
               ELSE r.max_resistance = <<0, 0>>
            /\ r.max_support[2] >= 0
            /\ r.max_resistance[2] <= 0

\* every aggregate is negative: there is a resistance and no support
OnlyResistanceWitness ==
    /\ hist.last # None
    /\ LastCall.points # {}
    /\ Len(LastCall.result[1].gex_by_strike) = 2
    /\ LastCall.result[1].max_support = <<0, 0>>
    /\ LastCall.result[1].max_resistance[2] < 0

\* C31: the gamma formula is never evaluated with T <= 0 or sigma <= 0:
\* black_scholes_gamma returns 0 there, calculate_gex produces no data point
\* for an instrument whose normalised implied volatility is <= 0, and every
\* data point that is produced has days_to_expiry > 0.
GammaOnlyInsideDomain ==
    (hist.last # None /\ ~LastCall.raised)
    => /\ \A p \in LastCall.points :
            /\ p.dte_seconds > 0
            /\ NormalisedSigma(p.mark_iv) > 0
       /\ \A r \in LastCall.rows :
            NormalisedSigma(r.mark_iv) <= 0
            => /\ GammaDollars(hist.spot, r.strike, r.expiration - LastCall.t,
                               NormalisedSigma(r.mark_iv)) = 0
               /\ ~\E p \in LastCall.points :
                     p.strike = r.strike /\ p.option_type = r.option_type
       /\ \A i \in DOMAIN LastCall.options :
            LastCall.options[i].expiration - LastCall.t <= 0
            => GammaDollars(hist.spot, LastCall.options[i].strike,
                            LastCall.options[i].expiration - LastCall.t,
                            NormalisedSigma(LastCall.options[i].mark_iv)) = 0

\* a position on the zero-volatility call gives no point, the put gives one
ZeroVolSkippedWitness ==
    /\ hist.last # None
    /\ LastCall.options = SnapshotZeroVol
    /\ PositionAt(hist.inventory, 90000, "call") # 0
    /\ LastCall.points # {}
    /\ \A p \in LastCall.points : p.strike = 91000

----------------------------------------------------------------------------
(* SpecFlip: _find_flip_level applied to drawn per-strike tables *)

FlipStrikes == <<70000, 89000, 90000, 91000, 110000>>
FlipGex == {-50, 0, 100}
FlipSpots == {900000, 1000000}

\* the rows of gex_by_strike, sorted by strike, for the strikes S with the
\* aggregates g
FlipTable(S, g) ==
    LET order == SelectSeq(FlipStrikes, LAMBDA K : K \in S)
    IN  [i \in 1..Len(order) |-> [strike |-> order[i], gex |-> g[order[i]]]]

InitFlip ==
    /\ state = NewState(TRUE)
    /\ IdleClients
    /\ ProcInit
    /\ now = 0
    /\ \E S \in SUBSET {FlipStrikes[i] : i \in 1..Len(FlipStrikes)}, spot \in FlipSpots :
         \E g \in [S -> FlipGex] :
            hist = [gex_df |-> FlipTable(S, g), btc_price |-> spot, done |-> FALSE,
                    flip_level |-> None]

\* flip_level = self._find_flip_level(gex_by_strike, btc_price)
FindFlip ==
    /\ ~hist.done
    /\ hist' = [hist EXCEPT !.done = TRUE,
                            !.flip_level = _find_flip_level(hist.gex_df, hist.btc_price)]
    /\ UNCHANGED <<state, prod, reader, decision, client, twin, inventory, pc, running, ws,
                   exc, credentials, total_trades, trades_since_last_calc, last_calc_time,
                   last_options_refresh, options_data, now>>

NextFlip == FindFlip

SpecFlip == InitFlip /\ [][NextFlip]_vars

\* row i of the drawn table lies within 15% of spot
InFlipRange(i) ==
    /\ hist.gex_df[i].strike * 1000 >= hist.btc_price * 85
    /\ hist.gex_df[i].strike * 1000 <= hist.btc_price * 115

\* rows i and i + 1 are both in range and their aggregates have opposite signs
SignChangeAt(i) ==
    /\ i + 1 <= Len(hist.gex_df)
    /\ InFlipRange(i) /\ InFlipRange(i + 1)
    /\ hist.gex_df[i].gex * hist.gex_df[i + 1].gex < 0

\* C30: flip_level comes only from strikes within 15% of spot in ascending
\* order: at the first adjacent pair (a, b) of opposite signs it is
\* strike_a + |gex_a| / (|gex_a| + |gex_b|) * (strike_b - strike_a), here to the
\* tenth of a dollar below, and it is None when no adjacent pair in range
\* changes sign (no nearest-strike fallback).
FlipIsFirstSignChange ==
    hist.done =>
        IF \E i \in DOMAIN hist.gex_df : SignChangeAt(i)
        THEN LET i   == CHOOSE k \in DOMAIN hist.gex_df :
                            SignChangeAt(k) /\ \A j \in 1..(k - 1) : ~SignChangeAt(j)
                 a   == hist.gex_df[i]
                 b   == hist.gex_df[i + 1]
                 tot == Abs(a.gex) + Abs(b.gex)
             IN  /\ hist.flip_level # None
                 /\ LET f == hist.flip_level[1] - a.strike * 10
                    IN  /\ f * tot <= Abs(a.gex) * (b.strike - a.strike) * 10
                        /\ Abs(a.gex) * (b.strike - a.strike) * 10 < (f + 1) * tot
        ELSE hist.flip_level = None

\* 90000 at +100 and 91000 at -50 give 90666.6, with a sign change out of
\* range before them left aside
FlipExampleWitness ==
    /\ hist.done
    /\ hist.btc_price = 900000
    /\ Len(hist.gex_df) = 3
    /\ hist.gex_df[1] = [strike |-> 70000, gex |-> -50]
    /\ hist.gex_df[2] = [strike |-> 90000, gex |-> 100]
    /\ hist.gex_df[3] = [strike |-> 91000, gex |-> -50]
    /\ hist.flip_level = Some(906666)

\* C34 (as claimed): the client re-enters Connecting only through the
\* Reconnecting delay: after any attempt has ended, for whatever reason,
\* run_forever never starts the next attempt without first sleeping the fixed
\* 5-second delay, so every attempt but the first starts with as many sleeps
\* behind it as attempts.
SleepBeforeEveryAttempt ==
    [][ (pc = "run_forever" /\ pc' # pc /\ hist.attempts >= 1)
        => hist.sleeps = hist.attempts
      ]_vars

\* C35: a disconnect/reconnect cycle never modifies accumulated state: in
\* every step outside the listen loop (the end of an attempt, the sleep, the
\* next run() up to its loop, for any number of failed attempts) every dealer
\* position, total_trades, trades_since_last_calc and the stored Result keep
\* their values.
ReconnectKeepsAccumulatedState ==
    [][ pc # "listen"
        => /\ get_full_inventory(state') = get_full_inventory(state)
           /\ get_gex_result(state') = get_gex_result(state)
           /\ total_trades' = total_trades
           /\ trades_since_last_calc' = trades_since_last_calc
           /\ inventory'.positions = inventory.positions
           /\ inventory'.trade_count = inventory.trade_count
      ]_vars

\* the second attempt is listening after a sleep, with the ten trades and the
\* Result of the first attempt still in place
ReconnectedWithStateWitness ==
    /\ client = "processor"
    /\ pc = "listen"
    /\ hist.attempts = 2
    /\ hist.sleeps = 1
    /\ hist.inbound = "none"
    /\ total_trades = 10
    /\ get_dealer_position(state, 90000, "call") = -100
    /\ get_gex_result(state) # None

\* C36: at most one feed connection is open at any time: every connection
\* opened by an attempt is closed before run_forever opens the next one, on
\* every exit path of run. The reference to an open connection is never
\* dropped or overwritten, only closed, and no connection is open while
\* run_forever is between attempts or run() is about to connect.
OneConnectionAtATime ==
    /\ [](pc \in {"run_forever", "fetch", "connect", "sleep"} => ws # Some("open"))
    /\ [][(ws = Some("open") /\ ws' # ws) => ws' = Some("closed")]_vars

\* the second attempt has opened its connection in place of the closed one of
\* the first attempt, which returned after stop()
SecondConnectionWitness ==
    /\ hist.attempts = 2
    /\ hist.sleeps = 0
    /\ hist.stopped
    /\ pc = "auth"
    /\ ws = Some("open")

\* C37: recalculate_gex stores nothing when the instrument snapshot is missing
\* or empty or the inventory has no entries: gex:current, gex:flip and
\* gex:last_updated keep their previous values; so, starting from an empty
\* store, no Result exists before the first trade has been applied.
NothingStoredWithoutInput ==
    /\ [][ (/\ hist'.recalc # "none"
            /\ \/ options_data = None
               \/ options_data = Some(<<>>)
               \/ DOMAIN get_full_inventory(state') = {})
           => /\ _get(state', "gex:current") = _get(state, "gex:current")
              /\ _get(state', "gex:flip") = _get(state, "gex:flip")
              /\ _get(state', "gex:last_updated") = _get(state, "gex:last_updated")
         ]_vars
    /\ [](total_trades = 0 => get_gex_result(state) = None)

\* a scheduled run found the snapshot empty and left the Result of the
\* previous attempt in the store
EarlyReturnKeepsResultWitness ==
    /\ hist.recalc = "early"
    /\ options_data = Some(<<>>)
    /\ total_trades = 10
    /\ get_gex_result(state) # None
    /\ _get(state, "gex:last_updated") = Some(0)
    /\ now > 0

\* C38 (as claimed): recalculation happens only at message boundaries: every
\* stored Result is computed from an inventory in which each received trade
\* notification is either fully applied or not applied at all.
StoredFromWholeNotifications ==
    [][hist'.recalc = "stored" => ~hist'.torn]_vars

----------------------------------------------------------------------------
(* SpecRefresh: the listen loop of the processor around the fifth minute *)

MaxRefreshTime == 345      \* last clock value, seconds
RefreshStarts == {255, 270}

\* the processor is listening; its snapshot was fetched at clock 0
InitRefresh ==
    /\ client = "processor"
    /\ twin = None
    /\ state = set_spot_price(NewState(FALSE), 878000)
    /\ inventory = NewInventory
    /\ pc = "listen"
    /\ running = TRUE
    /\ ws = Some("open")
    /\ exc = FALSE
    /\ credentials = TRUE
    /\ trades_since_last_calc = 0
    /\ total_trades = 0
    /\ last_calc_time = None
    /\ options_data = Some(SnapshotA)
    /\ last_options_refresh = Some(0)
    /\ prod = <<>>
    /\ reader = <<>>
    /\ decision = FALSE
    /\ now \in RefreshStarts
    /\ hist = [attempts |-> 1, sleeps |-> 0, stopped |-> FALSE, stoppedIn |-> "none",
               tradeMsgs |-> 0, step |-> "none", reply |-> "none", torn |-> FALSE,
               inbound |-> "none", event |-> "none", recalc |-> "none", sent |-> "none"]

LateListen == ListenUntil(MaxRefreshTime)

NextRefresh == LateListen \/ LoopExit \/ Stop

SpecRefresh == InitRefresh /\ [][NextRefresh]_vars

\* C33 (as claimed): while the client is listening, whenever at least 300
\* seconds have passed since the last refresh, the snapshot is refreshed at the
\* next loop iteration, whichever kind of event that iteration handles (trade
\* notification, heartbeat, or receive timeout).
RefreshAtNextIteration ==
    [][ (/\ pc = "listen" /\ pc' = "listen"
         /\ running
         /\ hist'.stopped = hist.stopped
         /\ hist'.inbound \in {"trades", "heartbeat", "test_request", "timeout"}
         /\ RefreshDue(last_options_refresh, now'))
        => last_options_refresh' = Some(now')
      ]_vars

====
